---- MODULE Spec2Model ----
(***************************************************************************)
(* Model of the Delta telemetry engine (nickz-gmm/DIY-Delta).              *)
(*                                                                         *)
(* Session state (apps/desktop/src-tauri/src/session.rs): the Lap Store    *)
(* `laps`, the per-source `builders`, `workspaces`; feed_sample is the lap *)
(* builder.  commands.rs: import_file, stop_all, start_*.  crates/io:      *)
(* import_csv / import_ndjson.  Adapters: the run loops of the three       *)
(* ingest crates.                                                          *)
(*                                                                         *)
(* Number representation.  The program computes in f32/f64; the model      *)
(* holds every quantity as an integer in a fixed unit:                     *)
(*   sim_time_s        whole seconds                                       *)
(*   t_ms, *_time_ms   whole milliseconds                                  *)
(*   speed_mps         tenths of m/s  (0.1 m/s is 1, 1.0 m/s is 10)        *)
(*   speed_kph         hundredths of km/h (speed_mps * 3.6 is tenths * 36) *)
(*   positions, lap_distance_m, cum_dist   whole metres                    *)
(*   throttle, brake   hundredths (1.0 is 100, 1.5 is 150)                 *)
(* The positions the model feeds have integral pairwise distances, so the  *)
(* square root of feed_sample is exact on them.                            *)
(*                                                                         *)
(* Option<T> is a sequence of length 0 (None) or 1 (Some).                 *)
(* Uuid::new_v4() is a fresh identifier drawn from the counter nextUuid    *)
(* (random 122-bit identifiers are taken never to collide).                *)
(***************************************************************************)
EXTENDS Integers, Sequences, FiniteSets, TLC

VARIABLES
    laps,        \* Inner.laps: lap id -> Lap
    builders,    \* Inner.builders: source key -> LapBuilder
    workspaces,  \* Inner.workspaces: name -> payload
    nextUuid,    \* the next identifier Uuid::new_v4() returns
    fedLog,      \* history: source key -> the samples fed under it, in call order
    origin,      \* history: lap id -> [src: the source key whose builder inserted it
                 \*   (or "import"), at: the index in fedLog[src] of the sample that closed it]
    nOps,        \* history: number of operations performed so far
    sources,     \* the sources started by run_source, in start order: producer
                 \*   task, channel, consumer thread
    sendClock,   \* history: number of tx.send calls made so far, over all producers
    fedStamps,   \* history: source key -> the send numbers of the samples fed under it
    feeders,     \* history: source key -> the sources whose consumer thread fed under it
    stopMark,    \* history: Some(number of sources started) when stop_all last returned
    windows,     \* the build target: cfg(windows) or not
    f1State,     \* delta-ingest-f1: the process-wide `static STATE` of parse_packet
    f1Own,       \* history: per F1 source, the PlayerState its own datagrams alone give
    f1Sent,      \* history: the samples the F1 sources sent, each with its datagram
    gt7,         \* delta-ingest-gt7: the heartbeat interval, the socket and the clock
    lmuReads,    \* history: the structs the LMU source read, each with the sample sent
    analysis,    \* history: the last analyze_laps call: its lap ids and what it returned
    kernel,      \* a function of crates/analysis or crates/io: the argument, the function
                 \*   applied to it and what it returned
    reply,       \* history: the last command that returned: its name, its arguments,
                 \*   its result, and the number of operations before it (`at`)
    mutex,       \* AppSession.inner, the lock: the thread that holds it, if any
    threads      \* the consumer threads and the command invocations: where each
                 \*   is with respect to the lock, its call, its result

sessVars == <<laps, builders, workspaces, nextUuid, fedLog, origin, nOps>>

runVars == <<sources, sendClock, fedStamps, feeders, stopMark, windows>>

ingestVars == <<f1State, f1Own, f1Sent, gt7, lmuReads>>

cmdVars == <<analysis, kernel, reply>>

lockVars == <<mutex, threads>>

vars == <<laps, builders, workspaces, nextUuid, fedLog, origin, nOps,
          sources, sendClock, fedStamps, feeders, stopMark, windows,
          f1State, f1Own, f1Sent, gt7, lmuReads, analysis, kernel, reply,
          mutex, threads>>

----------------------------------------------------------------------------
(* Helpers *)

None == <<>>
Some(x) == <<x>>
IsSome(o) == Len(o) = 1
Get(o) == o[1]

Last(s) == s[Len(s)]

\* HashMap::insert: the value under key k is replaced when k is present.
MapInsert(m, k, v) == [x \in (DOMAIN m) \cup {k} |-> IF x = k THEN v ELSE m[x]]

EmptyMap == [x \in {} |-> 0]

\* f64::sqrt on the perfect squares the model produces.
Sqrt(n) == CHOOSE r \in 0..n : r * r <= n /\ (r + 1) * (r + 1) > n

\* `x as u64` for a float x: negative values saturate to 0.
AsU64(x) == IF x < 0 THEN 0 ELSE x

Max(a, b) == IF a >= b THEN a ELSE b

Min(a, b) == IF a <= b THEN a ELSE b

Abs(a) == IF a < 0 THEN -a ELSE a

----------------------------------------------------------------------------
(* Program constants of feed_sample *)

StartSpeedDeci == 1        \* s.speed_mps > 0.1
RollSpeedDeci == 10        \* s.speed_mps > 1.0
NearStartM == 20           \* d < 20.0
MinLapMs == 15000          \* elapsed > 15000.0

----------------------------------------------------------------------------
(* session.rs: new_lap, LapBuilder::new *)

\* Mutant of new_lap: the lap that replaces a closed one keeps the id of
\* the session's first lap instead of a fresh Uuid::new_v4().
new_lap_reused_id(game, car, track, num, u) ==
    [ id |-> 1,
      meta |-> [id |-> u + 1, game |-> game, car |-> car, track |-> track,
                lap_number |-> num],
      total_time_ms |-> 0,
      points |-> <<>> ]

new_lap(game, car, track, num, u) ==
    [ id |-> u,
      meta |-> [id |-> u + 1, game |-> game, car |-> car, track |-> track,
                lap_number |-> num],
      total_time_ms |-> 0,
      points |-> <<>> ]

LapBuilderNew(game, car, track, u) ==
    [ current |-> Some(new_lap(game, car, track, 1, u)),
      last |-> None,
      start_pos |-> None,
      cum_dist |-> 0,
      last_t_ms |-> 0,
      track_guess_m |-> 0 ]

\* format!("{:?}", s.game).to_lowercase()
GameStr(g) ==
    CASE g = "F1_2024" -> "f1_2024"
      [] g = "F1_2025" -> "f1_2025"
      [] g = "GT7" -> "gt7"
      [] g = "LMU" -> "lmu"

----------------------------------------------------------------------------
(* session.rs: Inner::feed_sample, in the order of the code *)

\* Mutant of StartPosAfter: every moving sample sets the start position.
StartPosFollows(b, s) ==
    IF s.speed_mps > StartSpeedDeci
    THEN Some(<<s.world_pos_x, s.world_pos_z>>)
    ELSE b.start_pos

\* line 63: initialise start pos
StartPosAfter(b, s) ==
    IF b.start_pos = None /\ s.speed_mps > StartSpeedDeci
    THEN Some(<<s.world_pos_x, s.world_pos_z>>)
    ELSE b.start_pos

\* lines 67-78: the builder's cum_dist after the sample (lap_dist equals it)
CumDistAfter(b, s) ==
    IF s.lap_distance_m <= 0
    THEN IF IsSome(b.last)
         THEN LET dx == s.world_pos_x - Get(b.last).world_pos_x
                  dy == s.world_pos_z - Get(b.last).world_pos_z
              IN  b.cum_dist + Sqrt(dx * dx + dy * dy)
         ELSE b.cum_dist
    ELSE s.lap_distance_m

\* lines 81-89: the point pushed for sample s
PointOf(s, t_ms, lap_dist) ==
    [ t_ms |-> t_ms, lap_distance_m |-> lap_dist,
      x |-> s.world_pos_x, y |-> s.world_pos_z,
      speed_kph |-> s.speed_mps * 36,
      throttle |-> s.throttle, brake |-> s.brake, gear |-> s.gear,
      rpm |-> s.engine_rpm ]

\* lap.points.first().map(|p| p.t_ms).unwrap_or(t_ms)
FirstT(lap, t_ms) == IF Len(lap.points) > 0 THEN lap.points[1].t_ms ELSE t_ms

\* Mutant of PushPoint: the sample of a car that stands still adds no point.
PushPointWhenMoving(current, s, t_ms, lap_dist) ==
    IF IsSome(current) /\ s.speed_mps > 0
    THEN LET lap == Get(current)
             pts == Append(lap.points, PointOf(s, t_ms, lap_dist))
         IN  Some([lap EXCEPT !.points = pts,
                              !.total_time_ms = AsU64(t_ms - pts[1].t_ms)])
    ELSE current

\* lines 80-91: push the point and update the running total
PushPoint(current, s, t_ms, lap_dist) ==
    IF IsSome(current)
    THEN LET lap == Get(current)
             pts == Append(lap.points, PointOf(s, t_ms, lap_dist))
         IN  Some([lap EXCEPT !.points = pts,
                              !.total_time_ms = AsU64(t_ms - pts[1].t_ms)])
    ELSE current

\* lines 96-100: explicit lap number increase
ExplicitRoll(last, s) ==
    /\ IsSome(last)
    /\ s.current_lap > Get(last).current_lap
    /\ s.current_lap > 0

\* Mutant of HeuristicRoll: elapsed is measured from time 0 of the stream
\* instead of from the current lap's first point.
HeuristicRollSinceZero(start_pos, current, s, t_ms) ==
    /\ IsSome(start_pos)
    /\ IsSome(current)
    /\ LET sp == Get(start_pos)
           dx == s.world_pos_x - sp[1]
           dy == s.world_pos_z - sp[2]
           elapsed == t_ms
       IN  /\ dx * dx + dy * dy < NearStartM * NearStartM
           /\ elapsed > MinLapMs
           /\ s.speed_mps > RollSpeedDeci

\* lines 103-108: heuristic, near start pos and elapsed > 15 s
HeuristicRoll(start_pos, current, s, t_ms) ==
    /\ IsSome(start_pos)
    /\ IsSome(current)
    /\ LET sp == Get(start_pos)
           dx == s.world_pos_x - sp[1]
           dy == s.world_pos_z - sp[2]
           elapsed == t_ms - FirstT(Get(current), t_ms)
       IN  /\ dx * dx + dy * dy < NearStartM * NearStartM
           /\ elapsed > MinLapMs
           /\ s.speed_mps > RollSpeedDeci

\* lines 58-129: the whole handler, as a function of the session maps, the
\* key, the sample and the next fresh uuid.  Result: the new maps and uuid.
FeedSampleOp(ls, bs, key, s, u) ==
    LET game == GameStr(s.game)
        isNew == key \notin DOMAIN bs
        b0 == IF isNew THEN LapBuilderNew(game, "Unknown", "Unknown", u) ELSE bs[key]
        u1 == IF isNew THEN u + 2 ELSE u
        start_pos == StartPosAfter(b0, s)
        t_ms == s.sim_time_s * 1000
        cum_dist == CumDistAfter(b0, s)
        lap_dist == cum_dist
        current == PushPoint(b0.current, s, t_ms, lap_dist)
        roll == \/ ExplicitRoll(b0.last, s)
                \/ HeuristicRoll(start_pos, current, s, t_ms)
        b1 == [b0 EXCEPT !.start_pos = start_pos, !.cum_dist = cum_dist,
                         !.current = current]
    IN  IF roll /\ IsSome(current)
        THEN LET fin0 == Get(current)
                 finished == [fin0 EXCEPT !.total_time_ms =
                                 AsU64(t_ms - FirstT(fin0, t_ms))]
                 lastd == IF Len(finished.points) > 0
                          THEN Last(finished.points).lap_distance_m ELSE 0
                 next_num == Max(s.current_lap, 1)
                 b2 == [b1 EXCEPT
                          !.track_guess_m = IF lastd > @ THEN lastd ELSE @,
                          !.current = Some(new_lap(game, "Unknown", "Unknown", next_num, u1)),
                          !.cum_dist = 0,
                          !.last = Some(s),
                          !.last_t_ms = t_ms]
             IN  [ laps |-> MapInsert(ls, finished.id, finished),
                   builders |-> MapInsert(bs, key, b2),
                   uuid |-> u1 + 2,
                   inserted |-> {finished.id} ]
        ELSE [ laps |-> ls,
               builders |-> MapInsert(bs, key, [b1 EXCEPT !.last = Some(s), !.last_t_ms = t_ms]),
               uuid |-> u1,
               inserted |-> {} ]

\* Mutant of FeedSample: a rollover also clears the workspaces.
FeedSampleClearsWorkspaces(key, s) ==
    LET r == FeedSampleOp(laps, builders, key, s, nextUuid)
    IN  /\ laps' = r.laps
        /\ builders' = r.builders
        /\ nextUuid' = r.uuid
        /\ fedLog' = MapInsert(fedLog, key,
                       Append(IF key \in DOMAIN fedLog THEN fedLog[key] ELSE <<>>, s))
        /\ origin' = [id \in (DOMAIN origin) \cup r.inserted |->
                        IF id \in r.inserted
                        THEN [src |-> key, at |-> Len(fedLog'[key])]
                        ELSE origin[id]]
        /\ nOps' = nOps + 1
        /\ workspaces' = IF r.inserted = {} THEN workspaces ELSE EmptyMap

\* One call inner.feed_sample(key, s) made under the session lock.
FeedSample(key, s) ==
    LET r == FeedSampleOp(laps, builders, key, s, nextUuid)
    IN  /\ laps' = r.laps
        /\ builders' = r.builders
        /\ nextUuid' = r.uuid
        /\ fedLog' = MapInsert(fedLog, key,
                       Append(IF key \in DOMAIN fedLog THEN fedLog[key] ELSE <<>>, s))
        /\ origin' = [id \in (DOMAIN origin) \cup r.inserted |->
                        IF id \in r.inserted
                        THEN [src |-> key, at |-> Len(fedLog'[key])]
                        ELSE origin[id]]
        /\ nOps' = nOps + 1
        /\ UNCHANGED workspaces

----------------------------------------------------------------------------
(* crates/io: import_csv, import_ndjson.  A CSV file is the sequence of its *)
(* data records; a record that does not deserialize has ok = FALSE.  An     *)
(* NDJSON file is the sequence of its lines, each a Lap or not parseable.   *)

\* io::new_lap(r)
io_new_lap(r, u) ==
    [ id |-> u,
      meta |-> [id |-> u + 1, game |-> r.game, car |-> r.car, track |-> r.track,
                lap_number |-> r.lap_number],
      total_time_ms |-> 0,
      points |-> <<>> ]

CsvPoint(r) ==
    [ t_ms |-> r.t_ms, lap_distance_m |-> r.lap_distance_m,
      x |-> r.x, y |-> r.y, speed_kph |-> r.speed_kph,
      throttle |-> r.throttle, brake |-> r.brake, gear |-> r.gear, rpm |-> r.rpm ]

\* The loop of import_csv from record i on: laps pushed so far, the current
\* lap, the next fresh uuid.  `rec?` returns the error at the first bad record.
RECURSIVE ImportCsvFrom(_, _, _, _, _)
ImportCsvFrom(rows, i, acc, current, u) ==
    IF i > Len(rows)
    THEN [ ok |-> TRUE,
           laps |-> IF IsSome(current) THEN Append(acc, Get(current)) ELSE acc,
           uuid |-> u ]
    ELSE IF ~rows[i].ok
    THEN [ ok |-> FALSE, laps |-> <<>>, uuid |-> u ]
    ELSE LET r == rows[i]
             differs == ~(IsSome(current) /\ Get(current).meta.lap_number = r.lap_number)
             acc1 == IF differs /\ IsSome(current) THEN Append(acc, Get(current)) ELSE acc
             cur1 == IF differs THEN io_new_lap(r, u) ELSE Get(current)
             u1 == IF differs THEN u + 2 ELSE u
             cur2 == [cur1 EXCEPT !.points = Append(@, CsvPoint(r)),
                                  !.total_time_ms = AsU64(r.t_ms)]
         IN  ImportCsvFrom(rows, i + 1, acc1, Some(cur2), u1)

import_csv(rows, u) == ImportCsvFrom(rows, 1, <<>>, None, u)

\* import_ndjson: every line is deserialized to a Lap, id included; the
\* first line that fails returns the error.
import_ndjson(lines, u) ==
    IF \E i \in 1..Len(lines) : ~lines[i].ok
    THEN [ ok |-> FALSE, laps |-> <<>>, uuid |-> u ]
    ELSE [ ok |-> TRUE, laps |-> [i \in 1..Len(lines) |-> lines[i].lap], uuid |-> u ]

\* CsvHeader::default(), which export_csv serializes as the first record
\* after the column names the writer emits on its own.
CsvHeaderDefault ==
    [ ok |-> TRUE, game |-> "game", car |-> "car", track |-> "track",
      lap_number |-> 0, t_ms |-> 0, lap_distance_m |-> 0, x |-> 0, y |-> 0,
      speed_kph |-> 0, throttle |-> 0, brake |-> 0, gear |-> 0, rpm |-> 0 ]

\* The record export_csv writes for point p of lap l.
CsvRecordOf(l, p) ==
    [ ok |-> TRUE, game |-> l.meta.game, car |-> l.meta.car, track |-> l.meta.track,
      lap_number |-> l.meta.lap_number, t_ms |-> p.t_ms,
      lap_distance_m |-> p.lap_distance_m, x |-> p.x, y |-> p.y,
      speed_kph |-> p.speed_kph, throttle |-> p.throttle, brake |-> p.brake,
      gear |-> p.gear, rpm |-> p.rpm ]

\* for l in laps { for p in &l.points { w.serialize(CsvRow{..}) } }
RECURSIVE ExportCsvFrom(_, _)
ExportCsvFrom(ls, i) ==
    IF i > Len(ls) THEN <<>>
    ELSE [ k \in 1..Len(ls[i].points) |-> CsvRecordOf(ls[i], ls[i].points[k]) ]
         \o ExportCsvFrom(ls, i + 1)

\* export_csv: the data records of the file written.
export_csv(ls) == <<CsvHeaderDefault>> \o ExportCsvFrom(ls, 1)

\* for lap in laps { inner.laps.insert(lap.id, lap) }
RECURSIVE InsertAll(_, _, _)
InsertAll(ls, new, i) ==
    IF i > Len(new) THEN ls ELSE InsertAll(MapInsert(ls, new[i].id, new[i]), new, i + 1)

\* import_file, the match on the extension: what the importer returned
\* (`laps` is empty when it returned an error).
imported(file, u) ==
    IF file.ext = "csv" THEN import_csv(file.rows, u)
    ELSE IF file.ext \in {"ndjson", "jsonl"} THEN import_ndjson(file.rows, u)
    ELSE [ ok |-> FALSE, laps |-> <<>>, uuid |-> u ]

\* import_file, what the command returns: Ok(count) or the error.
import_file(file, u) ==
    IF file.ext \notin {"csv", "ndjson", "jsonl"}
    THEN [ ok |-> FALSE, err |-> "unsupported extension", count |-> 0 ]
    ELSE IF ~imported(file, u).ok
    THEN [ ok |-> FALSE, err |-> "parse", count |-> 0 ]
    ELSE [ ok |-> TRUE, err |-> "", count |-> Len(imported(file, u).laps) ]

\* import_file, what the command does to the session.
ImportFileBody(file) ==
    LET r == imported(file, nextUuid)
        ids == {r.laps[i].id : i \in 1..Len(r.laps)}
    IN  /\ laps' = InsertAll(laps, r.laps, 1)
        /\ nextUuid' = r.uuid
        /\ origin' = [id \in (DOMAIN origin) \cup ids |->
                        IF id \in ids THEN [src |-> "import", at |-> 0] ELSE origin[id]]
        /\ nOps' = nOps + 1
        /\ UNCHANGED <<builders, workspaces, fedLog>>

\* commands.rs: import_file, under the session lock.
ImportFile(file) ==
    /\ ImportFileBody(file)
    /\ UNCHANGED runVars
    /\ UNCHANGED ingestVars /\ UNCHANGED cmdVars

----------------------------------------------------------------------------
(* AppSession::new *)

\* analyze_laps, the loop over lapIds: the laps found, in request order; an
\* id that is not in the store is passed over.
LapRefs(ls, lapIds) == SelectSeq(lapIds, LAMBDA id : id \in DOMAIN ls)

\* The first of the laps found, whatever its time.
ref_lap_first(ls, refs) == refs[1]

\* lap_refs.iter().min_by_key(|l| l.total_time_ms).unwrap(): the first of the
\* laps found whose total_time_ms no other lap found undercuts.
ref_lap(ls, refs) ==
    LET isMin(k) == \A j \in 1..Len(refs) :
                        ls[refs[k]].total_time_ms <= ls[refs[j]].total_time_ms
    IN  refs[CHOOSE k \in 1..Len(refs) :
                 isMin(k) /\ \A j \in 1..(k - 1) : ~isMin(j)]

\* analyze_laps: Err("No laps") when no lap was found; else the four results
\* (overlay, delta_ribbon, corners, summary) computed over the laps found.
\* `over` lists the ids of the laps the results were computed from,
\* `reference` the id of the lap the delta ribbon and the corner metrics use.
analyze_laps(ls, lapIds) ==
    IF LapRefs(ls, lapIds) = <<>>
    THEN [ok |-> FALSE, err |-> "No laps", over |-> <<>>, reference |-> None]
    ELSE [ok |-> TRUE, err |-> "", over |-> LapRefs(ls, lapIds),
          reference |-> Some(ref_lap(ls, LapRefs(ls, lapIds)))]

AnalyzeLaps(lapIds) ==
    /\ analysis' = Some([lapIds |-> lapIds, result |-> analyze_laps(laps, lapIds)])
    /\ UNCHANGED <<kernel, reply>>
    /\ UNCHANGED sessVars
    /\ UNCHANGED runVars
    /\ UNCHANGED ingestVars

----------------------------------------------------------------------------
(* crates/analysis.  Distances are whole metres, t_ms whole milliseconds,  *)
(* speed_kph hundredths of km/h.  f64::INFINITY as a running best distance  *)
(* is None.  A mean is the fraction [num, den] of the sum and the count.   *)

\* Mutant of sample_speed_at_distance: `dd <= bd`, the last nearest point wins.
sample_speed_last_wins(lap, dist) ==
    IF lap.points = <<>> THEN 0
    ELSE LET near(k) == \A j \in 1..Len(lap.points) :
                            Abs(lap.points[k].lap_distance_m - dist)
                                <= Abs(lap.points[j].lap_distance_m - dist)
         IN  lap.points[CHOOSE k \in 1..Len(lap.points) :
                 near(k) /\ \A j \in (k + 1)..Len(lap.points) : ~near(j)].speed_kph

\* The loop of sample_speed_at_distance from point i on: bd is the best
\* distance so far, best the speed of the point that gave it.
RECURSIVE SpeedScan(_, _, _, _, _)
SpeedScan(points, dist, i, bd, best) ==
    IF i > Len(points) THEN best
    ELSE LET dd == Abs(points[i].lap_distance_m - dist)
         IN  IF bd = None \/ dd < Get(bd)
             THEN SpeedScan(points, dist, i + 1, Some(dd), points[i].speed_kph)
             ELSE SpeedScan(points, dist, i + 1, bd, best)

sample_speed_at_distance(lap, dist) ==
    IF lap.points = <<>> THEN 0
    ELSE SpeedScan(lap.points, dist, 1, None, lap.points[1].speed_kph)

\* laps.iter().filter_map(last point's lap_distance_m).fold(0.0, f64::max)
RECURSIVE FoldMaxLast(_, _, _)
FoldMaxLast(ls, i, acc) ==
    IF i > Len(ls) THEN acc
    ELSE FoldMaxLast(ls, i + 1,
             IF ls[i].points = <<>> THEN acc
             ELSE Max(acc, Last(ls[i].points).lap_distance_m))

\* One row of the overlay: for lap in laps { row.insert("speed_<id>", v) };
\* a later lap of the same id replaces the entry.
RECURSIVE OverlaySpeeds(_, _, _, _)
OverlaySpeeds(ls, d, i, row) ==
    IF i > Len(ls) THEN row
    ELSE OverlaySpeeds(ls, d, i + 1,
             MapInsert(row, ls[i].id, sample_speed_at_distance(ls[i], d)))

\* while d <= max_len { ...; d += 1.0 } from d = 0.0
overlay_speed_vs_distance(ls) ==
    LET max_len == FoldMaxLast(ls, 1, 0)
    IN  [ i \in 1..(max_len + 1) |->
            [ distance |-> i - 1, speed |-> OverlaySpeeds(ls, i - 1, 1, EmptyMap) ] ]

\* The loop of time_at_distance from point i on.
RECURSIVE TimeScan(_, _, _, _, _)
TimeScan(points, dist, i, bd, best_t) ==
    IF i > Len(points) THEN best_t
    ELSE LET dd == Abs(points[i].lap_distance_m - dist)
         IN  IF bd = None \/ dd < Get(bd)
             THEN TimeScan(points, dist, i + 1, Some(dd), points[i].t_ms)
             ELSE TimeScan(points, dist, i + 1, bd, best_t)

time_at_distance(lap, dist) ==
    IF lap.points = <<>> THEN 0
    ELSE TimeScan(lap.points, dist, 1, None, Last(lap.points).t_ms)
             - lap.points[1].t_ms

\* The inner loop of rolling_delta_vs_reference from lap i on: the sum of
\* t - t_ref and the count, over the laps whose id is not the reference's.
RECURSIVE DeltaSum(_, _, _, _, _)
DeltaSum(reference, ls, d, i, acc) ==
    IF i > Len(ls) THEN acc
    ELSE IF ls[i].id = reference.id THEN DeltaSum(reference, ls, d, i + 1, acc)
    ELSE DeltaSum(reference, ls, d, i + 1,
             [ delta |-> acc.delta + time_at_distance(ls[i], d)
                                   - time_at_distance(reference, d),
               count |-> acc.count + 1 ])

\* reference.points.last().map(|p| p.lap_distance_m).unwrap_or(0.0)
ribbon_max_len(reference) ==
    IF reference.points = <<>> THEN 0 ELSE Last(reference.points).lap_distance_m

\* if count > 0 { delta /= count as f64 }
rolling_delta_vs_reference(reference, ls) ==
    [ i \in 1..(ribbon_max_len(reference) + 1) |->
        LET acc == DeltaSum(reference, ls, i - 1, 1, [delta |-> 0, count |-> 0])
        IN  [ distance |-> i - 1,
              delta_ms |-> [ num |-> acc.delta,
                             den |-> IF acc.count > 0 THEN acc.count ELSE 1 ] ] ]

\* Curvature is counted in units of 1/36000, which holds every quotient the
\* paths of SpecKernel produce: 0.03 is 1080.
CurvUnit == 60 * 600

PeakWindow == 12           \* peak_indices(&curv, 12, 0.03)
PeakThreshold == 1080      \* 0.03
SectorCount == 3           \* auto_sectors(lap, &curv, 3)

\* curvature_series, the central-difference proxy at the interior point i
\* (1-based): cross / (a * b * csum).max(1e-6); the product is 0 only when
\* cross is 0.
CurvatureAt(points, i) ==
    LET dx1 == points[i].x - points[i - 1].x
        dy1 == points[i].y - points[i - 1].y
        dx2 == points[i + 1].x - points[i].x
        dy2 == points[i + 1].y - points[i].y
        cross == Abs(dx1 * dy2 - dy1 * dx2)
        a == Sqrt(dx1 * dx1 + dy1 * dy1)
        b == Sqrt(dx2 * dx2 + dy2 * dy2)
        csum == Sqrt((dx1 + dx2) * (dx1 + dx2) + (dy1 + dy2) * (dy1 + dy2))
    IN  IF a * b * csum = 0 THEN 0 ELSE (cross * CurvUnit) \div (a * b * csum)

\* The sum of c over from..to.
RECURSIVE SumRange(_, _, _)
SumRange(c, from, to) == IF from > to THEN 0 ELSE c[from] + SumRange(c, from + 1, to)

\* curvature_series: c is 0 at both ends; s[i] is the mean of c over
\* i-2 ..= i+2 cut to the series.
curvature_series(points) ==
    LET n == Len(points)
        c == [ i \in 1..n |-> IF i = 1 \/ i = n THEN 0 ELSE CurvatureAt(points, i) ]
    IN  [ i \in 1..n |->
            LET from == Max(i - 2, 1)
                to == IF i + 2 <= n THEN i + 2 ELSE n
            IN  SumRange(c, from, to) \div (to - from + 1) ]

\* thirds, the time of the point at 0-based index k: l.points.get(k).map(|p| p.t_ms)
TimeOfPoint(l, k) == IF k < Len(l.points) THEN Some(l.points[k + 1].t_ms) ELSE None

\* Mutant of thirds: a chunk ends on its own last point, one before the
\* first point of the next chunk.
thirds_within_chunks(l) ==
    LET n == Max(Len(l.points), 1)
        s == n \div 3
        a(i) == i * s
        b(i) == IF i = 2 THEN n - 1 ELSE Max(Min((i + 1) * s, n - 1) - 1, 0)
        ta(i) == IF IsSome(TimeOfPoint(l, a(i))) THEN Get(TimeOfPoint(l, a(i))) ELSE 0
        tb(i) == IF IsSome(TimeOfPoint(l, b(i))) THEN Get(TimeOfPoint(l, b(i))) ELSE ta(i)
    IN  [ j \in 1..3 |-> AsU64(tb(j - 1) - ta(j - 1)) ]

\* thirds: chunk i (0, 1, 2) runs from the point at index i * s to the point
\* at index (i + 1) * s, the last chunk to the last point; its time is the
\* difference of the two t_ms, negative differences counting as 0.
thirds(l) ==
    LET n == Max(Len(l.points), 1)
        s == n \div 3
        a(i) == i * s
        b(i) == IF i = 2 THEN n - 1 ELSE Min((i + 1) * s, n - 1)
        ta(i) == IF IsSome(TimeOfPoint(l, a(i))) THEN Get(TimeOfPoint(l, a(i))) ELSE 0
        tb(i) == IF IsSome(TimeOfPoint(l, b(i))) THEN Get(TimeOfPoint(l, b(i))) ELSE ta(i)
    IN  [ j \in 1..3 |-> AsU64(tb(j - 1) - ta(j - 1)) ]

\* Mutant of IsPeak: the threshold is not looked at.
IsPeakAtAnyLevel(curv, i, window, threshold) ==
    \A k \in (i - window)..(i + window - 1) : ~(curv[k + 1] > curv[i + 1])

\* peak_indices, the test of index i (0-based, as in the code; curv[i] of
\* the code is curv[i + 1] here): at least the threshold and no value of
\* (i - window)..(i + window) above it.
IsPeak(curv, i, window, threshold) ==
    /\ curv[i + 1] >= threshold
    /\ \A k \in (i - window)..(i + window - 1) : ~(curv[k + 1] > curv[i + 1])

\* peak_indices: the 0-based indices of window..(n - window) that pass.
peak_indices(curv, window, threshold) ==
    LET n == Len(curv)
    IN  IF n = 0 \/ window = 0 \/ n <= window * 2 THEN <<>>
        ELSE SelectSeq([ j \in 1..(n - 2 * window) |-> window + j - 1 ],
                       LAMBDA i : IsPeak(curv, i, window, threshold))

\* auto_sectors: the position of 0-based index i after the stable sort by
\* descending curvature.
SortedRank(curv, i) ==
    Cardinality({ k \in 0..(Len(curv) - 1) :
                    \/ curv[k + 1] > curv[i + 1]
                    \/ (curv[k + 1] = curv[i + 1] /\ k < i) })

\* auto_sectors: the top n-1 indices, sorted and deduplicated, then the
\* distances of the first point, of the cuts that are points and of the last
\* point, and one sector per pair of neighbours.
auto_sectors(lap, curv, n) ==
    IF lap.points = <<>> \/ n = 0 THEN <<>>
    ELSE LET cuts == SelectSeq([ j \in 1..Len(curv) |-> j - 1 ],
                               LAMBDA i : SortedRank(curv, i) < n - 1)
             mid == SelectSeq(cuts, LAMBDA c : c + 1 <= Len(lap.points))
             ds == <<lap.points[1].lap_distance_m>>
                   \o [ j \in 1..Len(mid) |-> lap.points[mid[j] + 1].lap_distance_m ]
                   \o <<Last(lap.points).lap_distance_m>>
         IN  [ j \in 1..(Len(ds) - 1) |-> [start_m |-> ds[j], end_m |-> ds[j + 1]] ]

\* bbox_of: the running minimum and maximum; a bound never replaced stays
\* at its infinity (None).
bbox_of(pl) ==
    LET xs == { pl[k].x : k \in 1..Len(pl) }
        ys == { pl[k].y : k \in 1..Len(pl) }
        least(S) == CHOOSE m \in S : \A v \in S : m <= v
        most(S) == CHOOSE m \in S : \A v \in S : v <= m
    IN  IF pl = <<>> THEN [minx |-> None, maxx |-> None, miny |-> None, maxy |-> None]
        ELSE [minx |-> Some(least(xs)), maxx |-> Some(most(xs)),
              miny |-> Some(least(ys)), maxy |-> Some(most(ys))]

\* build_track_map: the corner labels are numbered from 1 in the order of
\* the peaks.
build_track_map(lap) ==
    LET pl == [ k \in 1..Len(lap.points) |-> [x |-> lap.points[k].x, y |-> lap.points[k].y] ]
        curv == curvature_series(lap.points)
        peaks == peak_indices(curv, PeakWindow, PeakThreshold)
        labels == [ i \in 1..Len(peaks) |->
                      IF peaks[i] + 1 <= Len(lap.points)
                      THEN Some([index |-> i, x |-> lap.points[peaks[i] + 1].x,
                                 y |-> lap.points[peaks[i] + 1].y])
                      ELSE None ]
        kept == SelectSeq(labels, LAMBDA l : IsSome(l))
    IN  [ polyline |-> pl,
          corners |-> [ i \in 1..Len(kept) |-> Get(kept[i]) ],
          sectors |-> auto_sectors(lap, curv, SectorCount),
          bbox |-> bbox_of(pl) ]

----------------------------------------------------------------------------
(* commands.rs: list_laps, build_track_map, export_file, save_workspace,   *)
(* load_workspace; crates/io: export_ndjson, export_motec_csv.  Each is    *)
(* the body the command runs between taking the session lock and dropping  *)
(* the guard at its end.                                                   *)

\* The orders in which inner.laps.values() may yield the laps of the store.
ValueOrders(ls) ==
    { o \in [1..Cardinality(DOMAIN ls) -> DOMAIN ls] :
        \A i, j \in 1..Cardinality(DOMAIN ls) : o[i] = o[j] => i = j }

LapRow(l) ==
    [ id |-> l.id, game |-> l.meta.game, track |-> l.meta.track, car |-> l.meta.car,
      lap_number |-> l.meta.lap_number, time_ms |-> l.total_time_ms ]

\* v.sort_by_key(|r| r.time_ms): a stable sort.
SortByTime(v) ==
    LET rank(i) == Cardinality({ j \in 1..Len(v) :
                        \/ v[j].time_ms < v[i].time_ms
                        \/ v[j].time_ms = v[i].time_ms /\ j < i })
    IN  [ k \in 1..Len(v) |-> v[CHOOSE i \in 1..Len(v) : rank(i) = k - 1] ]

list_laps(ls, order) ==
    [ ok |-> TRUE, err |-> "",
      rows |-> SortByTime([ i \in 1..Len(order) |-> LapRow(ls[order[i]]) ]) ]

\* The command build_track_map of commands.rs (the function of
\* crates/analysis it calls is build_track_map above).
track_map_of(ls, lapId) ==
    IF lapId \in DOMAIN ls
    THEN [ ok |-> TRUE, err |-> "", map |-> Some(build_track_map(ls[lapId])) ]
    ELSE [ ok |-> FALSE, err |-> "Lap not found", map |-> None ]

\* export_ndjson: one line per lap, the whole Lap, id included.
export_ndjson(ls) == [ i \in 1..Len(ls) |-> [ ok |-> TRUE, lap |-> ls[i] ] ]

\* The record export_motec_csv writes for point p of lap l.  Time is in
\* microseconds from the lap's first point ({:.6} of seconds), LapDistance
\* in millimetres ({:.3}), X and Y in tenths of a millimetre ({:.4}), Speed
\* in 1/1000 km/h, Throttle and Brake in 1/1000, RPM in tenths.
MotecRecordOf(l, p) ==
    [ Time |-> (p.t_ms - l.points[1].t_ms) * 1000,
      LapDistance |-> p.lap_distance_m * 1000,
      X |-> p.x * 10000, Y |-> p.y * 10000,
      Speed |-> p.speed_kph * 10,
      Throttle |-> p.throttle * 10, Brake |-> p.brake * 10,
      Gear |-> p.gear, RPM |-> p.rpm * 10,
      LapNumber |-> l.meta.lap_number,
      Track |-> l.meta.track, Car |-> l.meta.car, Game |-> l.meta.game ]

RECURSIVE ExportMotecFrom(_, _)
ExportMotecFrom(ls, i) ==
    IF i > Len(ls) THEN <<>>
    ELSE [ k \in 1..Len(ls[i].points) |-> MotecRecordOf(ls[i], ls[i].points[k]) ]
         \o ExportMotecFrom(ls, i + 1)

export_motec_csv(ls) == ExportMotecFrom(ls, 1)

ExportKinds == {"csv", "ndjson", "motec_csv"}

\* export_file: `order` is the order values() yields, `ioOk` whether the
\* file at `path` can be created and written.  `file` is what was written.
export_file(ls, kind, order, ioOk) ==
    LET refs == [ i \in 1..Len(order) |-> ls[order[i]] ]
    IN  IF kind \notin ExportKinds
        THEN [ ok |-> FALSE, err |-> "unsupported export kind", file |-> None ]
        ELSE IF ~ioOk
        THEN [ ok |-> FALSE, err |-> "io", file |-> None ]
        ELSE [ ok |-> TRUE, err |-> "",
               file |-> Some(IF kind = "csv" THEN export_csv(refs)
                             ELSE IF kind = "ndjson" THEN export_ndjson(refs)
                             ELSE export_motec_csv(refs)) ]

\* save_workspace: the insert comes first; an error of create_dir_all or
\* of write is returned after it.
SaveWorkspace(name, payload) ==
    /\ workspaces' = MapInsert(workspaces, name, payload)
    /\ UNCHANGED <<laps, builders, nextUuid, fedLog, origin, nOps>>

\* load_workspace: the payload held in memory, else the file's, `disk`
\* (None when it cannot be read).
load_workspace(ws, name, disk) ==
    IF name \in DOMAIN ws THEN [ ok |-> TRUE, err |-> "", payload |-> Some(ws[name]) ]
    ELSE IF IsSome(disk) THEN [ ok |-> TRUE, err |-> "", payload |-> disk ]
    ELSE [ ok |-> FALSE, err |-> "io", payload |-> None ]

GameKeys == {"f1_24", "f1_25", "lmu", "gt7"}

\* cars_and_tracks: `disk` is the file data/cars_tracks/<game>.json, None
\* when it cannot be read, else whether it parses and what it holds.  The
\* command takes no session state.
cars_and_tracks(game, disk) ==
    IF game \notin GameKeys THEN [ ok |-> FALSE, err |-> "unknown game", value |-> None ]
    ELSE IF disk = None THEN [ ok |-> FALSE, err |-> "io", value |-> None ]
    ELSE IF ~Get(disk).json THEN [ ok |-> FALSE, err |-> "parse", value |-> None ]
    ELSE [ ok |-> TRUE, err |-> "", value |-> Some(Get(disk).value) ]

\* Mutant of Replies: the command clears the lap store before it returns.
RepliesOverClearedStore(cmd, args, result) ==
    /\ reply' = Some([cmd |-> cmd, args |-> args, result |-> result, at |-> nOps])
    /\ laps' = EmptyMap
    /\ UNCHANGED <<builders, workspaces, nextUuid, fedLog, origin, nOps>>
    /\ UNCHANGED <<analysis, kernel>>
    /\ UNCHANGED runVars /\ UNCHANGED ingestVars /\ UNCHANGED lockVars

\* A command that only borrows the session returns `result`.
Replies(cmd, args, result) ==
    /\ reply' = Some([cmd |-> cmd, args |-> args, result |-> result, at |-> nOps])
    /\ UNCHANGED sessVars
    /\ UNCHANGED <<analysis, kernel>>
    /\ UNCHANGED runVars /\ UNCHANGED ingestVars /\ UNCHANGED lockVars

\* The commands, each from its lock() to its return.
BuildTrackMapCmd(lapId) ==
    Replies("build_track_map", [lapId |-> lapId], track_map_of(laps, lapId))

ExportFileCmd(kind, ioOk) ==
    \E order \in ValueOrders(laps) :
        Replies("export_file", [kind |-> kind, ioOk |-> ioOk],
                export_file(laps, kind, order, ioOk))

CarsAndTracksCmd(game, disk) ==
    Replies("cars_and_tracks", [game |-> game, disk |-> disk], cars_and_tracks(game, disk))

ImportFileCmd(file) ==
    /\ ImportFileBody(file)
    /\ reply' = Some([cmd |-> "import_file", args |-> [file |-> file],
                      result |-> import_file(file, nextUuid), at |-> nOps])
    /\ UNCHANGED <<analysis, kernel>>
    /\ UNCHANGED runVars /\ UNCHANGED ingestVars /\ UNCHANGED lockVars

SaveWorkspaceCmd(name, payload, ioOk) ==
    /\ SaveWorkspace(name, payload)
    /\ reply' = Some([cmd |-> "save_workspace", args |-> [name |-> name, payload |-> payload],
                      result |-> [ok |-> ioOk, err |-> IF ioOk THEN "" ELSE "io"],
                      at |-> nOps])
    /\ UNCHANGED <<analysis, kernel>>
    /\ UNCHANGED runVars /\ UNCHANGED ingestVars /\ UNCHANGED lockVars

----------------------------------------------------------------------------
(* The initial state *)

SessionInit ==
    /\ laps = EmptyMap
    /\ builders = EmptyMap
    /\ workspaces = EmptyMap
    /\ nextUuid = 1
    /\ fedLog = EmptyMap
    /\ origin = EmptyMap
    /\ nOps = 0

\* No command has been called.
NoCalls == analysis = None /\ kernel = None /\ reply = None /\ mutex = None /\ threads = EmptyMap

\* No source has been started.
NoSources ==
    /\ sources = <<>>
    /\ sendClock = 0
    /\ fedStamps = EmptyMap
    /\ feeders = EmptyMap
    /\ stopMark = None

\* parse_packet has not run: PlayerState::default().
PlayerStateDefault ==
    [ world_pos_x |-> 0, world_pos_z |-> 0, speed_mps |-> 0, throttle |-> 0,
      brake |-> 0, gear |-> 0, rpm |-> 0, lap_distance |-> 0, current_lap |-> 0 ]

HeartbeatMs == 800         \* time::interval(Duration::from_millis(800))

\* GT7Source::run at the creation of hb_interval, configured with `variant`:
\*   now       milliseconds since the interval was created
\*   deadline  the time of the interval's next tick (the first is immediate)
\*   sent      the heartbeat bytes sent to the console, in order
\*   errs      history: number of heartbeat sends that returned an error
\*   pending   a datagram is waiting in the socket
\*   stalled   history: the task was left unpolled while a tick was due
Gt7Timer(variant) ==
    [ variant |-> variant, now |-> 0, deadline |-> 0, sent |-> <<>>, errs |-> 0,
      pending |-> FALSE, stalled |-> FALSE ]

NoIngest ==
    /\ f1State = PlayerStateDefault
    /\ f1Own = <<>>
    /\ f1Sent = <<>>
    /\ gt7 = Gt7Timer("A")
    /\ lmuReads = <<>>

Init == SessionInit /\ NoCalls /\ NoSources /\ NoIngest /\ windows = FALSE

----------------------------------------------------------------------------
(* The samples the specifications feed: the fields feed_sample reads.  The *)
(* pass-through fields (throttle, brake, gear, engine_rpm) are constant.   *)

Sample(game, t, v, p, dist, lap) ==
    [ game |-> game, sim_time_s |-> t, speed_mps |-> v,
      throttle |-> 0, brake |-> 0, gear |-> 1, engine_rpm |-> 0,
      world_pos_x |-> p[1], world_pos_z |-> p[2],
      lap_distance_m |-> dist, current_lap |-> lap ]

----------------------------------------------------------------------------
(* SpecAuth: one source whose samples carry lap numbers.  The car does not *)
(* move (speed 0), so start_pos stays unset and only the explicit rule can *)
(* close a lap.                                                            *)

MaxAuthFeeds == 3

AuthKey == "f1:20777:2025"

AuthSamples ==
    { Sample("F1_2025", t, 0, p, d, n) :
        t \in {10, 20, 30}, p \in {<<0, 0>>, <<30, 16>>},
        d \in {0, 5, 50}, n \in {0, 1, 2} }

FeedAuth ==
    \E s \in AuthSamples :
        nOps < MaxAuthFeeds /\ FeedSample(AuthKey, s) /\ UNCHANGED runVars /\ UNCHANGED ingestVars /\ UNCHANGED cmdVars /\ UNCHANGED lockVars

NextAuth == FeedAuth

SpecAuth == Init /\ [][NextAuth]_vars

----------------------------------------------------------------------------
(* SpecHeur: one source whose samples never carry a lap number (GT7 sends  *)
(* current_lap = 0 and lap_distance_m = 0).  The car is at (0,0) or 34 m   *)
(* away at (30,16); it drives at 2 m/s, or stands still at (0,0).          *)

MaxHeurFeeds == 5

HeurKey == "gt7"

HeurSamples ==
    { Sample("GT7", t, 20, p, 0, 0) : t \in {0, 10, 30}, p \in {<<0, 0>>, <<30, 16>>} }
    \cup
    { Sample("GT7", t, 0, <<0, 0>>, 0, 0) : t \in {0, 30} }

FeedHeur ==
    \E s \in HeurSamples :
        nOps < MaxHeurFeeds /\ FeedSample(HeurKey, s) /\ UNCHANGED runVars /\ UNCHANGED ingestVars /\ UNCHANGED cmdVars /\ UNCHANGED lockVars

NextHeur == FeedHeur

SpecHeur == Init /\ [][NextHeur]_vars

----------------------------------------------------------------------------
(* Spec: the session with two sources and file imports.  The F1 source     *)
(* sends lap numbers 1 and 2, the GT7 source none; the cars stand still.   *)

MaxOps == 3

Keys == {"f1:20777:2025", "gt7"}

SamplesOf(key) ==
    IF key = "gt7"
    THEN { Sample("GT7", t, 0, <<0, 0>>, 0, 0) : t \in {10, 30} }
    ELSE { Sample("F1_2025", t, 0, <<0, 0>>, 50, n) : t \in {10, 30}, n \in {1, 2} }

CsvRow(n, t) ==
    [ ok |-> TRUE, game |-> "gt7", car |-> "Unknown", track |-> "Unknown",
      lap_number |-> n, t_ms |-> t, lap_distance_m |-> 0, x |-> 0, y |-> 0,
      speed_kph |-> 0, throttle |-> 0, brake |-> 0, gear |-> 1, rpm |-> 0 ]

BadRecord == [ ok |-> FALSE ]

CsvRows == { CsvRow(1, 1000), CsvRow(1, 2000), BadRecord }

\* A lap as a line of an NDJSON file: the id is the file's.
FileLap(id, num, total) ==
    [ ok |-> TRUE,
      lap |-> [ id |-> id,
                meta |-> [id |-> id + 1, game |-> "gt7", car |-> "Unknown",
                          track |-> "Unknown", lap_number |-> num],
                total_time_ms |-> total,
                points |-> <<CsvPoint(CsvRow(1, 1000)), CsvPoint(CsvRow(1, 2000))>> ] ]

\* The two laps carry the same id, as in a file exported, edited and imported again.
NdjsonLines == { FileLap(101, 1, 1000), FileLap(101, 2, 1000), BadRecord }

\* The ids analyze_laps is asked for: the imported NDJSON lap, the first
\* lap created in the session, an id no lap has.
RequestIds == {101, 1, 999}

SeqsUpTo2(S) == {<<>>} \cup {<<a>> : a \in S} \cup {<<a, b>> : a \in S, b \in S}

Files ==
    { [ext |-> "csv", rows |-> rs] : rs \in SeqsUpTo2(CsvRows) }
    \cup { [ext |-> "ndjson", rows |-> rs] : rs \in SeqsUpTo2(NdjsonLines) }
    \cup { [ext |-> "txt", rows |-> <<>>] }

Feed ==
    \E key \in Keys : \E s \in SamplesOf(key) :
        nOps < MaxOps /\ FeedSample(key, s) /\ UNCHANGED runVars /\ UNCHANGED ingestVars /\ UNCHANGED cmdVars /\ UNCHANGED lockVars

Import == \E file \in Files : nOps < MaxOps /\ ImportFile(file) /\ UNCHANGED lockVars

Analyze == \E lapIds \in SeqsUpTo2(RequestIds) : AnalyzeLaps(lapIds) /\ UNCHANGED lockVars

Next == Feed \/ Import \/ Analyze

Spec == Init /\ [][Next]_vars

----------------------------------------------------------------------------
(* session.rs: run_source; commands.rs: start_f1, start_gt7, start_lmu,    *)
(* stop_all; the run loops of the three adapters as far as the channel is  *)
(* concerned.                                                              *)
(*                                                                         *)
(* A source is [kind, key, port, pstate, chan, rx_alive, consumer,         *)
(* send_errs]:                                                             *)
(*   pstate    the producer task: "spawned" (run not yet past bind / open),*)
(*             "running" (in the loop), "ok" / "err" (run returned)        *)
(*   chan      the unbounded channel: the samples sent and not yet         *)
(*             received, each with its send number (history)               *)
(*   rx_alive  the receiver has not been dropped                           *)
(*   consumer  the consumer thread: "recv" (in rx.recv()), "sleep" (in the *)
(*             10 ms sleep after Err), "none" (run was called directly)    *)
(*   send_errs history: number of sends that returned an error             *)
(*   sent      history: number of sends that put a sample on the channel   *)
(*   died_at   history: the value of sendClock when run returned an error  *)

MaxSources == 2
MaxSends == 3

\* format!("f1:{}:{}", port, format)
F1Key(port, format) ==
    CASE port = 20777 /\ format = 2025 -> "f1:20777:2025"
      [] port = 20777 /\ format = 2024 -> "f1:20777:2024"
      [] OTHER -> "f1:other"

NewSource(kind, key, port, consumer) ==
    [ kind |-> kind, key |-> key, port |-> port, pstate |-> "spawned",
      chan |-> <<>>, rx_alive |-> TRUE, consumer |-> consumer, send_errs |-> 0,
      sent |-> 0, died_at |-> 0 ]

\* run_source: the channel, the producer task and the consumer thread.
RunSource(kind, key, port) ==
    /\ sources' = Append(sources, NewSource(kind, key, port, "recv"))
    /\ UNCHANGED <<sendClock, fedStamps, feeders, stopMark, windows>>
    /\ UNCHANGED ingestVars /\ UNCHANGED cmdVars /\ UNCHANGED lockVars
    /\ UNCHANGED sessVars

start_f1(port, format) ==
    /\ Len(sources) < MaxSources
    /\ RunSource("F1", F1Key(port, format), port)

start_gt7(bindPort) ==
    /\ Len(sources) < MaxSources
    /\ RunSource("GT7", "gt7", bindPort)

\* On a target that is not Windows the command returns Err and starts nothing.
start_lmu ==
    /\ Len(sources) < MaxSources
    /\ IF windows THEN RunSource("LMU", "lmu", 0) ELSE UNCHANGED vars

\* stop_all: returns Ok(()) and does nothing else.
stop_all ==
    /\ stopMark' = Some(Len(sources))
    /\ UNCHANGED <<sources, sendClock, fedStamps, feeders, windows>>
    /\ UNCHANGED ingestVars /\ UNCHANGED cmdVars /\ UNCHANGED lockVars
    /\ UNCHANGED sessVars

\* A UDP port is free when no running producer holds a socket bound to it.
PortFree(port) ==
    \A j \in 1..Len(sources) : sources[j].pstate = "running" => sources[j].port # port

\* The head of run: UdpSocket::bind (F1, GT7) fails when the port is taken;
\* SharedMemoryMapping::new (LMU) fails when the mapping does not exist.
ProducerOpen(i, mappingExists) ==
    /\ sources[i].pstate = "spawned"
    /\ LET ok == IF sources[i].kind = "LMU" THEN mappingExists
                 ELSE PortFree(sources[i].port)
       IN  sources' = [sources EXCEPT ![i].pstate = IF ok THEN "running" ELSE "err",
                                      ![i].died_at = IF ok THEN @ ELSE sendClock]
    /\ UNCHANGED <<sendClock, fedStamps, feeders, stopMark, windows>>
    /\ UNCHANGED ingestVars /\ UNCHANGED cmdVars /\ UNCHANGED lockVars
    /\ UNCHANGED sessVars

\* One pass of the run loop that has a sample to send.  tx.send fails when
\* the receiver has been dropped: F1 ignores the result (`let _ =`) and goes
\* on; GT7 and LMU break out of the loop and run returns Ok(()).
SendResult(src, s, stamp) ==
    IF src.rx_alive
    THEN [src EXCEPT !.chan = Append(@, [s |-> s, stamp |-> stamp]), !.sent = @ + 1]
    ELSE [src EXCEPT !.send_errs = @ + 1,
                     !.pstate = IF src.kind = "F1" THEN @ ELSE "ok"]

ProducerSample(i, s) ==
    /\ sources[i].pstate = "running"
    /\ sendClock < MaxSends
    /\ sendClock' = sendClock + 1
    /\ sources' = [sources EXCEPT ![i] = SendResult(@, s, sendClock + 1)]
    /\ UNCHANGED <<fedStamps, feeders, stopMark, windows>>
    /\ UNCHANGED ingestVars /\ UNCHANGED cmdVars /\ UNCHANGED lockVars
    /\ UNCHANGED sessVars

\* Mutant of ProducerIoError: the error of one source ends every source.
ProducerIoErrorEndsAll(i) ==
    /\ sources[i].pstate = "running"
    /\ sources[i].kind \in {"F1", "GT7"}
    /\ sources' = [j \in 1..Len(sources) |->
                       [sources[j] EXCEPT !.pstate = "err", !.died_at = sendClock]]
    /\ UNCHANGED <<sendClock, fedStamps, feeders, stopMark, windows>>
    /\ UNCHANGED ingestVars /\ UNCHANGED cmdVars /\ UNCHANGED lockVars
    /\ UNCHANGED sessVars

\* socket.recv_from / socket.recv returns an error: run returns Err.
ProducerIoError(i) ==
    /\ sources[i].pstate = "running"
    /\ sources[i].kind \in {"F1", "GT7"}
    /\ sources' = [sources EXCEPT ![i].pstate = "err", ![i].died_at = sendClock]
    /\ UNCHANGED <<sendClock, fedStamps, feeders, stopMark, windows>>
    /\ UNCHANGED ingestVars /\ UNCHANGED cmdVars /\ UNCHANGED lockVars
    /\ UNCHANGED sessVars

\* Mutant of ConsumerFeed: the received sample is fed and stays at the head
\* of the channel.
ConsumerFeedPeeks(i) ==
    /\ sources[i].consumer = "recv"
    /\ sources[i].rx_alive
    /\ sources[i].chan # <<>>
    /\ LET m == Head(sources[i].chan)
           key == sources[i].key
       IN  /\ FeedSample(key, m.s)
           /\ fedStamps' = MapInsert(fedStamps, key,
                  Append(IF key \in DOMAIN fedStamps THEN fedStamps[key] ELSE <<>>, m.stamp))
           /\ feeders' = MapInsert(feeders, key,
                  (IF key \in DOMAIN feeders THEN feeders[key] ELSE {}) \cup {i})
    /\ sources' = sources
    /\ UNCHANGED <<sendClock, stopMark, windows>>
    /\ UNCHANGED ingestVars /\ UNCHANGED cmdVars /\ UNCHANGED lockVars

\* rx.recv() returns Ok(sample): feed it under the session lock.
ConsumerFeed(i) ==
    /\ sources[i].consumer = "recv"
    /\ sources[i].rx_alive
    /\ sources[i].chan # <<>>
    /\ LET m == Head(sources[i].chan)
           key == sources[i].key
       IN  /\ FeedSample(key, m.s)
           /\ fedStamps' = MapInsert(fedStamps, key,
                  Append(IF key \in DOMAIN fedStamps THEN fedStamps[key] ELSE <<>>, m.stamp))
           /\ feeders' = MapInsert(feeders, key,
                  (IF key \in DOMAIN feeders THEN feeders[key] ELSE {}) \cup {i})
    /\ sources' = [sources EXCEPT ![i].chan = Tail(@)]
    /\ UNCHANGED <<sendClock, stopMark, windows>>
    /\ UNCHANGED ingestVars /\ UNCHANGED cmdVars /\ UNCHANGED lockVars

\* rx.recv() returns Err: the channel is empty and the sender is dropped,
\* which happens when run has returned.  The thread sleeps 10 ms.
ConsumerDisconnected(i) ==
    /\ sources[i].consumer = "recv"
    /\ sources[i].chan = <<>>
    /\ sources[i].pstate \in {"ok", "err"}
    /\ sources' = [sources EXCEPT ![i].consumer = "sleep"]
    /\ UNCHANGED <<sendClock, fedStamps, feeders, stopMark, windows>>
    /\ UNCHANGED ingestVars /\ UNCHANGED cmdVars /\ UNCHANGED lockVars
    /\ UNCHANGED sessVars

\* The sleep ends; the loop calls rx.recv() again.
ConsumerWake(i) ==
    /\ sources[i].consumer = "sleep"
    /\ sources' = [sources EXCEPT ![i].consumer = "recv"]
    /\ UNCHANGED <<sendClock, fedStamps, feeders, stopMark, windows>>
    /\ UNCHANGED ingestVars /\ UNCHANGED cmdVars /\ UNCHANGED lockVars
    /\ UNCHANGED sessVars

\* The samples an adapter of each kind sends in the model.
RunSamples(kind) ==
    CASE kind = "GT7" -> { Sample("GT7", t, 20, <<0, 0>>, 0, 0) : t \in {0, 30} }
      [] kind = "F1" -> { Sample("F1_2025", 10, 0, <<0, 0>>, 50, n) : n \in {1, 2} }
      [] kind = "LMU" -> { Sample("LMU", 10, 0, <<0, 0>>, 50, n) : n \in {1, 2} }

----------------------------------------------------------------------------
(* SpecRun: the desktop application: start commands, stop_all, producers   *)
(* and consumers.                                                          *)

InitRun == SessionInit /\ NoCalls /\ NoSources /\ NoIngest /\ windows \in BOOLEAN

StartF1 == start_f1(20777, 2025)

StartGt7 == \E bindPort \in {33740, 33741} : start_gt7(bindPort)

StartLmu == start_lmu

StopAll == stop_all

Open == \E i \in 1..Len(sources) : \E mappingExists \in BOOLEAN : ProducerOpen(i, mappingExists)

Produce == \E i \in 1..Len(sources) : \E s \in RunSamples(sources[i].kind) : ProducerSample(i, s)

IoError == \E i \in 1..Len(sources) : ProducerIoError(i)

Consume == \E i \in 1..Len(sources) : ConsumerFeed(i)

Disconnected == \E i \in 1..Len(sources) : ConsumerDisconnected(i)

Wake == \E i \in 1..Len(sources) : ConsumerWake(i)

NextRun ==
    \/ StartF1 \/ StartGt7 \/ StartLmu \/ StopAll
    \/ Open \/ Produce \/ IoError
    \/ Consume \/ Disconnected \/ Wake

SpecRun == InitRun /\ [][NextRun]_vars

----------------------------------------------------------------------------
(* SpecAdapters: the three ingest crates on their own.  A caller has made  *)
(* a channel for each adapter and called run(tx); it receives samples and  *)
(* may drop the receiver at any time.                                      *)

InitAdapters ==
    /\ SessionInit
    /\ NoCalls
    /\ sources = << NewSource("F1", "f1:20777:2025", 20777, "none"),
                    NewSource("GT7", "gt7", 33740, "none"),
                    NewSource("LMU", "lmu", 0, "none") >>
    /\ sendClock = 0
    /\ fedStamps = EmptyMap
    /\ feeders = EmptyMap
    /\ stopMark = None
    /\ windows = TRUE
    /\ NoIngest

\* The caller takes the next sample from the receiver.
ReceiverTakes(i) ==
    /\ sources[i].rx_alive
    /\ sources[i].chan # <<>>
    /\ sources' = [sources EXCEPT ![i].chan = Tail(@)]
    /\ UNCHANGED <<sendClock, fedStamps, feeders, stopMark, windows>>
    /\ UNCHANGED ingestVars /\ UNCHANGED cmdVars /\ UNCHANGED lockVars
    /\ UNCHANGED sessVars

\* The caller drops the receiver; the queued samples go with it.
ReceiverDropped(i) ==
    /\ sources[i].rx_alive
    /\ sources' = [sources EXCEPT ![i].rx_alive = FALSE, ![i].chan = <<>>]
    /\ UNCHANGED <<sendClock, fedStamps, feeders, stopMark, windows>>
    /\ UNCHANGED ingestVars /\ UNCHANGED cmdVars /\ UNCHANGED lockVars
    /\ UNCHANGED sessVars

Take == \E i \in 1..Len(sources) : ReceiverTakes(i)

Drop == \E i \in 1..Len(sources) : ReceiverDropped(i)

NextAdapters == Open \/ Produce \/ IoError \/ Take \/ Drop

SpecAdapters == InitAdapters /\ [][NextAdapters]_vars

----------------------------------------------------------------------------
(* SpecStarted: the desktop application on Windows after start_f1,         *)
(* start_gt7 and start_lmu have each been called once: three producers,    *)
(* three channels, three consumer threads.                                 *)

InitStarted ==
    /\ SessionInit
    /\ NoCalls
    /\ sources = << NewSource("F1", "f1:20777:2025", 20777, "recv"),
                    NewSource("GT7", "gt7", 33740, "recv"),
                    NewSource("LMU", "lmu", 0, "recv") >>
    /\ sendClock = 0
    /\ fedStamps = EmptyMap
    /\ feeders = EmptyMap
    /\ stopMark = None
    /\ windows = TRUE
    /\ NoIngest

NextStarted == Open \/ Produce \/ IoError \/ Consume \/ Disconnected \/ Wake

SpecStarted == InitStarted /\ [][NextStarted]_vars

----------------------------------------------------------------------------
(* delta-ingest-f1: the datagram decoder.                                  *)
(*                                                                         *)
(* A datagram is [len, packet_format, packet_id, player_car_index,         *)
(* session_time] and the values the game wrote for the player's car:       *)
(* world_pos_x, world_pos_z (Motion), lap_distance, lap_num (LapData),     *)
(* speed_kph, throttle_byte, brake_byte, gear, rpm (CarTelemetry).  A      *)
(* value is in the bytes received only if len reaches past its block.      *)
(* The fields of PlayerState that feed_sample does not read (world_pos_y,  *)
(* yaw, pitch, roll, the lap times, frame) are copied the same way and are *)
(* left out.                                                               *)

F1MinLen == 32             \* if len < 32 { continue; }
HeaderBytes == 29          \* the bytes read_header reads
F1Base == 24               \* let base = 24
PACKET_MOTION == 0
PACKET_LAPDATA == 2
PACKET_CAR_TELEMETRY == 6
MotionStride == 1464
MotionBlock == 64
LapStride == 51
LapBlock == 40             \* 0x28
LapNumOff == 16            \* 0x10
TelemetryStride == 58
TelemetryBlock == 20

\* read_header: None when the buffer ends inside the header.
read_header(dg) == IF dg.len >= HeaderBytes THEN Some(dg) ELSE None

\* The match on hdr.packet_id: the latest-values state after the datagram.
ApplyPacket(st, dg) ==
    LET idx == dg.player_car_index
    IN  CASE dg.packet_id = PACKET_MOTION ->
                 IF dg.len >= F1Base + idx * MotionStride + MotionBlock
                 THEN [st EXCEPT !.world_pos_x = dg.world_pos_x,
                                 !.world_pos_z = dg.world_pos_z]
                 ELSE st
          [] dg.packet_id = PACKET_LAPDATA ->
                 LET start == F1Base + idx * LapStride
                     a == IF dg.len >= start + LapBlock
                          THEN [st EXCEPT !.lap_distance = dg.lap_distance]
                          ELSE st
                 IN  IF dg.len > start + LapNumOff
                     THEN [a EXCEPT !.current_lap = dg.lap_num]
                     ELSE a
          [] dg.packet_id = PACKET_CAR_TELEMETRY ->
                 IF dg.len >= F1Base + idx * TelemetryStride + TelemetryBlock
                 THEN [st EXCEPT !.speed_mps = (dg.speed_kph * 100) \div 36,
                                 !.throttle = (dg.throttle_byte * 100) \div 255,
                                 !.brake = (dg.brake_byte * 100) \div 255,
                                 !.gear = dg.gear,
                                 !.rpm = dg.rpm]
                 ELSE st
          [] OTHER -> st

\* The TelemetrySample built from the state and the header.
F1SampleOf(st, dg) ==
    [ game |-> IF dg.packet_format >= 2025 THEN "F1_2025" ELSE "F1_2024",
      sim_time_s |-> dg.session_time, speed_mps |-> st.speed_mps,
      throttle |-> st.throttle, brake |-> st.brake, gear |-> st.gear,
      engine_rpm |-> st.rpm,
      world_pos_x |-> st.world_pos_x, world_pos_z |-> st.world_pos_z,
      lap_distance_m |-> st.lap_distance, current_lap |-> st.current_lap ]

\* parse_packet on state st: the state it leaves and the sample it returns.
parse_packet(st, dg) ==
    IF read_header(dg) = None
    THEN [state |-> st, sample |-> None]
    ELSE [state |-> ApplyPacket(st, dg),
          sample |-> Some(F1SampleOf(ApplyPacket(st, dg), dg))]

\* One pass of F1Source::run: recv_from returns datagram dg.
F1Recv(i, dg) ==
    /\ sources[i].kind = "F1"
    /\ sources[i].pstate = "running"
    /\ sendClock < MaxSends
    /\ UNCHANGED <<gt7, lmuReads>>
    /\ UNCHANGED cmdVars /\ UNCHANGED lockVars
    /\ IF dg.len < F1MinLen
       THEN UNCHANGED <<sources, sendClock, f1State, f1Own, f1Sent>>
       ELSE LET r == parse_packet(f1State, dg)
                own == ApplyPacket(f1Own[i], dg)
            IN  /\ f1State' = r.state
                /\ f1Own' = [f1Own EXCEPT ![i] = own]
                /\ IF IsSome(r.sample)
                   THEN /\ sendClock' = sendClock + 1
                        /\ sources' = [sources EXCEPT
                               ![i] = SendResult(@, Get(r.sample), sendClock + 1)]
                        /\ f1Sent' = Append(f1Sent,
                               [src |-> i, dg |-> dg, s |-> Get(r.sample),
                                own |-> F1SampleOf(own, dg)])
                   ELSE UNCHANGED <<sources, sendClock, f1Sent>>
    /\ UNCHANGED <<fedStamps, feeders, stopMark, windows>>
    /\ UNCHANGED sessVars

----------------------------------------------------------------------------
(* SpecF1: two F1Source instances in one process, on two ports, each fed   *)
(* by its own game.                                                        *)

\* The datagram a game sends: v stands for the values of the player's car.
Datagram(len, id, idx, v) ==
    [ len |-> len, packet_format |-> 2025, packet_id |-> id,
      player_car_index |-> idx, session_time |-> 10,
      world_pos_x |-> v, world_pos_z |-> v, lap_distance |-> v, lap_num |-> v,
      speed_kph |-> 36 * v, throttle_byte |-> 255, brake_byte |-> 0,
      gear |-> v, rpm |-> 1000 * v ]

\* Lengths: below the minimum, past the header only, past the blocks of car 0.
DatagramLens == {20, 40, 100}

\* Motion, Session, LapData, CarTelemetry.
PacketIds == {0, 1, 2, 6}

\* The game behind source i writes the value i.
DatagramsOf(i) ==
    { Datagram(len, id, idx, i) : len \in DatagramLens, id \in PacketIds, idx \in {0, 1} }

InitF1 ==
    /\ SessionInit
    /\ NoCalls
    /\ sources = << NewSource("F1", "f1:20777:2025", 20777, "none"),
                    NewSource("F1", "f1:20778:2025", 20778, "none") >>
    /\ sendClock = 0
    /\ fedStamps = EmptyMap
    /\ feeders = EmptyMap
    /\ stopMark = None
    /\ windows = FALSE
    /\ f1State = PlayerStateDefault
    /\ f1Own = <<PlayerStateDefault, PlayerStateDefault>>
    /\ f1Sent = <<>>
    /\ gt7 = Gt7Timer("A")
    /\ lmuReads = <<>>

F1Datagram == \E i \in 1..Len(sources) : \E dg \in DatagramsOf(i) : F1Recv(i, dg)

NextF1 == Open \/ F1Datagram \/ IoError

SpecF1 == InitF1 /\ [][NextF1]_vars

----------------------------------------------------------------------------
(* delta-ingest-gt7: the run loop.  One pass of the loop is one            *)
(* tokio::select! over hb_interval.tick() and socket.recv(): a branch that *)
(* is ready is taken; when both are ready either may be.  A pass takes no  *)
(* time in the model: the clock moves between passes, and it does not move *)
(* while the tick branch is ready unless the task is stalled (left         *)
(* unpolled, "app is busy").                                               *)

MaxClockSteps == 12

\* The clock moves in quarters of the heartbeat period.
ClockStepMs == HeartbeatMs \div 4

MaxClockMs == MaxClockSteps * ClockStepMs

normalise_variant(v) == IF v \in {"A", "B", "~"} THEN v ELSE "A"

\* Mutant of TickReady: the tick branch is taken only when no datagram waits.
TickReadyAfterRecv(h) == h.now >= h.deadline /\ ~h.pending

\* hb_interval.tick() is ready.
TickReady(h) == h.now >= h.deadline

\* MissedTickBehavior::Skip: the next tick is the next multiple of the period
\* after now, counted from the missed deadline; missed ticks are not made up.
NextDeadline(h) ==
    h.deadline + ((h.now - h.deadline) \div HeartbeatMs + 1) * HeartbeatMs

\* The tick branch: `let _ = socket.send(&hb).await`, best-effort.  sendOk is
\* whether the socket accepted the byte; either way the loop goes on.
Gt7Heartbeat(i, sendOk) ==
    /\ sources[i].kind = "GT7"
    /\ sources[i].pstate = "running"
    /\ TickReady(gt7)
    /\ gt7' = [gt7 EXCEPT
           !.deadline = NextDeadline(gt7),
           !.sent = IF sendOk THEN Append(@, normalise_variant(gt7.variant)) ELSE @,
           !.errs = IF sendOk THEN @ ELSE @ + 1]
    /\ UNCHANGED <<f1State, f1Own, f1Sent, lmuReads>>
    /\ UNCHANGED cmdVars /\ UNCHANGED lockVars
    /\ UNCHANGED runVars
    /\ UNCHANGED sessVars

\* A datagram from the console arrives in the socket.
Gt7Arrive ==
    /\ ~gt7.pending
    /\ gt7' = [gt7 EXCEPT !.pending = TRUE]
    /\ UNCHANGED <<f1State, f1Own, f1Sent, lmuReads>>
    /\ UNCHANGED cmdVars /\ UNCHANGED lockVars
    /\ UNCHANGED runVars
    /\ UNCHANGED sessVars

\* The recv branch with Ok(len): decrypt_and_parse gives `parsed` (None or
\* Some(sample)); a sample is sent, and a failed send breaks the loop.
Gt7Recv(i, parsed) ==
    /\ sources[i].kind = "GT7"
    /\ sources[i].pstate = "running"
    /\ gt7.pending
    /\ gt7' = [gt7 EXCEPT !.pending = FALSE]
    /\ IF IsSome(parsed)
       THEN /\ sendClock < MaxSends
            /\ sendClock' = sendClock + 1
            /\ sources' = [sources EXCEPT ![i] = SendResult(@, Get(parsed), sendClock + 1)]
       ELSE UNCHANGED <<sources, sendClock>>
    /\ UNCHANGED <<f1State, f1Own, f1Sent, lmuReads>>
    /\ UNCHANGED cmdVars /\ UNCHANGED lockVars
    /\ UNCHANGED <<fedStamps, feeders, stopMark, windows>>
    /\ UNCHANGED sessVars

\* Time passes while the loop waits in select with no tick ready, or after
\* run has returned.
ClockAdvance ==
    /\ gt7.now < MaxClockMs
    /\ \A i \in 1..Len(sources) :
           (sources[i].kind = "GT7" /\ sources[i].pstate = "running") => ~TickReady(gt7)
    /\ gt7' = [gt7 EXCEPT !.now = @ + ClockStepMs]
    /\ UNCHANGED <<f1State, f1Own, f1Sent, lmuReads>>
    /\ UNCHANGED cmdVars /\ UNCHANGED lockVars
    /\ UNCHANGED runVars
    /\ UNCHANGED sessVars

\* Time passes although a tick is ready: the runtime does not poll the task.
ClockStall ==
    /\ gt7.now < MaxClockMs
    /\ \E i \in 1..Len(sources) :
           sources[i].kind = "GT7" /\ sources[i].pstate = "running" /\ TickReady(gt7)
    /\ gt7' = [gt7 EXCEPT !.now = @ + ClockStepMs, !.stalled = TRUE]
    /\ UNCHANGED <<f1State, f1Own, f1Sent, lmuReads>>
    /\ UNCHANGED cmdVars /\ UNCHANGED lockVars
    /\ UNCHANGED runVars
    /\ UNCHANGED sessVars

----------------------------------------------------------------------------
(* SpecGt7: one GT7Source past bind and connect, at the creation of the    *)
(* heartbeat interval, for each configured variant.                        *)

Gt7Variants == {"A", "B", "~", "C"}

InitGt7 ==
    /\ SessionInit
    /\ NoCalls
    /\ sources = << [NewSource("GT7", "gt7", 33740, "none") EXCEPT !.pstate = "running"] >>
    /\ sendClock = 0
    /\ fedStamps = EmptyMap
    /\ feeders = EmptyMap
    /\ stopMark = None
    /\ windows = FALSE
    /\ f1State = PlayerStateDefault
    /\ f1Own = <<>>
    /\ f1Sent = <<>>
    /\ \E v \in Gt7Variants : gt7 = Gt7Timer(v)
    /\ lmuReads = <<>>

Heartbeat == \E i \in 1..Len(sources) : \E sendOk \in BOOLEAN : Gt7Heartbeat(i, sendOk)

Arrive == Gt7Arrive

Recv ==
    \E i \in 1..Len(sources) :
        \E parsed \in {None} \cup {Some(s) : s \in RunSamples("GT7")} : Gt7Recv(i, parsed)

NextGt7 == Heartbeat \/ Arrive \/ Recv \/ IoError \/ Drop \/ ClockAdvance \/ ClockStall

SpecGt7 == InitGt7 /\ [][NextGt7]_vars

----------------------------------------------------------------------------
(* delta-ingest-lmu: validate and the run loop.                            *)
(*                                                                         *)
(* A struct read is [begin, end, mThrottle, mBrake, mGear, mLocalVel,      *)
(* mSpeed, mElapsedTime, mPos, mLapDist, mLapNumber, mEngineRPM].  A float *)
(* that may be non-finite is an Option: None is NaN or an infinity.        *)
(* mLocalVel is its x component (y and z are 0); velocities are in m/s.    *)

GearMin == -1
GearMaxAccepted == 12

\* Mutant of validate: the version guards are not compared.
validateNoVersionGuard(telem) ==
    /\ telem.mThrottle >= 0 /\ telem.mThrottle <= 100
    /\ telem.mBrake >= 0 /\ telem.mBrake <= 100
    /\ telem.mGear >= GearMin /\ telem.mGear <= GearMaxAccepted

\* RF2Telemetry::validate
validate(telem) ==
    /\ telem.begin = telem.end
    /\ telem.mThrottle >= 0 /\ telem.mThrottle <= 100
    /\ telem.mBrake >= 0 /\ telem.mBrake <= 100
    /\ telem.mGear >= GearMin /\ telem.mGear <= GearMaxAccepted

\* `as i8` of an i32: the low eight bits, two's complement.
AsI8(x) == ((x + 128) % 256) - 128

\* The speed published, in tenths of m/s: mSpeed when it is finite and not
\* negative, else the magnitude of mLocalVel.
LmuSpeed(telem) ==
    IF IsSome(telem.mSpeed) /\ Get(telem.mSpeed) >= 0
    THEN Get(telem.mSpeed) * 10
    ELSE Sqrt(Get(telem.mLocalVel) * Get(telem.mLocalVel)) * 10

\* The TelemetrySample built from a struct that passed validate.
LmuSampleOf(telem) ==
    [ game |-> "LMU", sim_time_s |-> telem.mElapsedTime, speed_mps |-> LmuSpeed(telem),
      throttle |-> telem.mThrottle, brake |-> telem.mBrake, gear |-> AsI8(telem.mGear),
      engine_rpm |-> telem.mEngineRPM,
      world_pos_x |-> telem.mPos[1], world_pos_z |-> telem.mPos[2],
      lap_distance_m |-> telem.mLapDist, current_lap |-> telem.mLapNumber ]

MaxLmuReads == 2

\* One pass of LMUSource::run: read the struct, validate, send, wait for the
\* next tick.  A failed send breaks the loop.
LmuRead(i, telem) ==
    /\ sources[i].kind = "LMU"
    /\ sources[i].pstate = "running"
    /\ Len(lmuReads) < MaxLmuReads
    /\ sendClock < MaxSends
    /\ IF validate(telem)
       THEN /\ sendClock' = sendClock + 1
            /\ sources' = [sources EXCEPT ![i] = SendResult(@, LmuSampleOf(telem), sendClock + 1)]
       ELSE UNCHANGED <<sources, sendClock>>
    /\ lmuReads' = Append(lmuReads,
           [ telem |-> telem,
             sample |-> IF validate(telem) /\ sources[i].rx_alive
                        THEN Some(LmuSampleOf(telem)) ELSE None,
             goes_on |-> sources'[i].pstate = "running" ])
    /\ UNCHANGED <<f1State, f1Own, f1Sent, gt7>>
    /\ UNCHANGED cmdVars /\ UNCHANGED lockVars
    /\ UNCHANGED <<fedStamps, feeders, stopMark, windows>>
    /\ UNCHANGED sessVars

----------------------------------------------------------------------------
(* SpecLmu: one LMUSource on Windows; the game writes the struct.          *)

Telemetry(torn, throttle, brake, gear, vel) ==
    [ begin |-> 7, end |-> IF torn THEN 8 ELSE 7,
      mThrottle |-> throttle, mBrake |-> brake, mGear |-> gear,
      mLocalVel |-> vel, mSpeed |-> Some(50), mElapsedTime |-> 10,
      mPos |-> <<0, 0>>, mLapDist |-> 50, mLapNumber |-> 1, mEngineRPM |-> 0 ]

\* Velocities: in range, out of range, not finite.
LocalVels == {Some(0), Some(2000), None}

\* Every combination of guards and controls at velocity 0, and every
\* velocity with guards and controls that pass.
Telemetries ==
    { Telemetry(torn, throttle, brake, gear, Some(0)) :
          torn \in BOOLEAN, throttle \in {100, 150}, brake \in {0, -10},
          gear \in {-2, -1, 12, 13} }
    \cup { Telemetry(FALSE, 100, 0, gear, vel) : gear \in {-1, 12}, vel \in LocalVels }

InitLmu ==
    /\ SessionInit
    /\ NoCalls
    /\ sources = << NewSource("LMU", "lmu", 0, "none") >>
    /\ sendClock = 0
    /\ fedStamps = EmptyMap
    /\ feeders = EmptyMap
    /\ stopMark = None
    /\ windows = TRUE
    /\ NoIngest

LmuTick == \E i \in 1..Len(sources) : \E telem \in Telemetries : LmuRead(i, telem)

NextLmu == Open \/ LmuTick \/ Take \/ Drop

SpecLmu == InitLmu /\ [][NextLmu]_vars

----------------------------------------------------------------------------
(* SpecKernel: the functions of crates/analysis and crates/io applied to   *)
(* laps drawn from small sets.  One family of arguments per function.      *)

KernelPoint(t, d, v, x, y) ==
    [ t_ms |-> t, lap_distance_m |-> d, x |-> x, y |-> y, speed_kph |-> v,
      throttle |-> 0, brake |-> 0, gear |-> 1, rpm |-> 0 ]

KernelLap(id, points) ==
    [ id |-> id,
      meta |-> [id |-> id + 100, game |-> "gt7", car |-> "Unknown",
                track |-> "Unknown", lap_number |-> 1],
      total_time_ms |-> IF points = <<>> THEN 0
                        ELSE AsU64(Last(points).t_ms - points[1].t_ms),
      points |-> points ]

\* Overlay: laps L1 and L2 of up to two points; a point is a distance (one
\* of them before the line) and a speed of 100 or 120 km/h.
OverlayPoints ==
    { KernelPoint(0, d, v, 0, 0) : d \in {-1, 0, 2, 50}, v \in {10000, 12000} }

OverlayLaps(id) == { KernelLap(id, pts) : pts \in SeqsUpTo2(OverlayPoints) }

OverlayArgs ==
    {<<>>} \cup { <<a>> : a \in OverlayLaps(1) }
           \cup { <<a, b>> : a \in OverlayLaps(1), b \in OverlayLaps(2) }

\* Delta ribbon: a reference of up to two points, which the list holds or
\* not, and up to two other laps.
RibbonPoints == { KernelPoint(t, d, 0, 0, 0) : t \in {0, 1000, 3000}, d \in {0, 2} }

RibbonPeers(id) ==
    { KernelLap(id, <<>>),
      KernelLap(id, <<KernelPoint(0, 0, 0, 0, 0), KernelPoint(2000, 2, 0, 0, 0)>>),
      KernelLap(id, <<KernelPoint(500, 0, 0, 0, 0), KernelPoint(1500, 1, 0, 0, 0),
                      KernelPoint(4500, 2, 0, 0, 0)>>) }

RibbonArgs ==
    { [reference |-> r, laps |-> ls] :
        r \in { KernelLap(1, pts) : pts \in SeqsUpTo2(RibbonPoints) },
        ls \in {<<>>} \cup { <<p>> : p \in RibbonPeers(2) }
                 \cup { <<p, q>> : p \in RibbonPeers(2), q \in RibbonPeers(3) } }

\* The list as analyze_laps passes it (the reference first, last or absent).
RibbonLists(a) == { a.laps, <<a.reference>> \o a.laps, a.laps \o <<a.reference>> }

\* Track map: a lap driven along a path of moves of length 5 (ahead to the
\* right, ahead to the left) or 0, one point per second.  The distances are
\* the length driven, or, with `drop`, end on the 0 of a next lap's first
\* sample, as in a lap closed by a lap number increase.
Moves == { <<3, 4>>, <<-3, 4>>, <<0, 0>> }

MoveLen(m) == IF m = <<0, 0>> THEN 0 ELSE 5

PathPoints(moves, drop) ==
    [ i \in 1..(Len(moves) + 1) |->
        KernelPoint((i - 1) * 1000,
                    IF drop /\ i > 1 /\ i = Len(moves) + 1 THEN 0
                    ELSE SumRange([ j \in 1..Len(moves) |-> MoveLen(moves[j]) ], 1, i - 1),
                    0,
                    SumRange([ j \in 1..Len(moves) |-> moves[j][1] ], 1, i - 1),
                    SumRange([ j \in 1..Len(moves) |-> moves[j][2] ], 1, i - 1)) ]

SeqsUpTo3(S) == SeqsUpTo2(S) \cup { <<a, b, c>> : a \in S, b \in S, c \in S }

\* Paths of 25 moves: straight, a zigzag, a straight with one bend.
LongPaths ==
    { [ j \in 1..25 |-> <<3, 4>> ],
      [ j \in 1..25 |-> IF j % 2 = 1 THEN <<3, 4>> ELSE <<-3, 4>> ],
      [ j \in 1..25 |-> IF j <= 13 THEN <<3, 4>> ELSE <<-3, 4>> ] }

TrackArgs ==
    { KernelLap(1, <<>>) }
    \cup { KernelLap(1, PathPoints(moves, drop)) :
               moves \in SeqsUpTo3(Moves) \cup LongPaths, drop \in BOOLEAN }

\* Peak detection: series of 24 to 26 values, flat but for a plateau of up to
\* three equal values; the levels are 0, 0.03 and 0.05.
PeakSeries(n, lo, hi, p, len) == [ i \in 1..n |-> IF i >= p /\ i < p + len THEN hi ELSE lo ]

PeakArgs ==
    { PeakSeries(n, lo, hi, p, len) :
        n \in 24..26, lo \in {0, 1080}, hi \in {1080, 1800}, p \in {1, 12, 13, 14}, len \in 1..3 }

\* Series of 40 values: noise of 0 and 0.02 in four patterns, with no bump
\* or with one bump of 0.1 at the 0-based index `at`.
NoiseLevel == (2 * CurvUnit) \div 100          \* 0.02

BumpLevel == CurvUnit \div 10                  \* 0.1

Noise(pattern, i) ==
    IF pattern = 0 THEN 0
    ELSE IF pattern = 1 THEN NoiseLevel
    ELSE IF i % pattern = 0 THEN NoiseLevel ELSE 0

BumpSeries(pattern, at) ==
    [ i \in 1..40 |-> IF i = at + 1 THEN BumpLevel ELSE Noise(pattern, i) ]

BumpArgs ==
    { BumpSeries(pattern, at) : pattern \in 0..3, at \in {-1, 5, 12, 20, 27, 28} }

\* Thirds: laps of up to 11 points at a regular pace, and laps of up to
\* three points whose times also stand still or run backwards.
EvenLap(n, step, from) ==
    KernelLap(1, [ i \in 1..n |-> KernelPoint(from + (i - 1) * step, 0, 0, 0, 0) ])

ThirdsArgs ==
    { EvenLap(n, step, from) : n \in 0..11, step \in {100, 250}, from \in {0, 5000} }
    \cup { KernelLap(1, pts) :
              pts \in SeqsUpTo3({ KernelPoint(t, 0, 0, 0, 0) : t \in {0, 1000, 3000} }) }

\* CSV round trip: up to two laps numbered 1 or 2, of up to two points.
CsvPoints == { KernelPoint(t, 0, 0, 0, 0) : t \in {1000, 2000} }

CsvLaps(id) ==
    { [ KernelLap(id, pts) EXCEPT !.meta.lap_number = n ] :
        pts \in SeqsUpTo2(CsvPoints), n \in {1, 2} }

CsvArgs ==
    {<<>>} \cup { <<a>> : a \in CsvLaps(201) }
           \cup { <<a, b>> : a \in CsvLaps(201), b \in CsvLaps(203) }

KernelCall(fn, arg, out) == Some([fn |-> fn, arg |-> arg, out |-> out])

InitKernel ==
    /\ SessionInit /\ NoSources /\ NoIngest /\ windows = FALSE
    /\ analysis = None /\ reply = None /\ mutex = None /\ threads = EmptyMap
    /\ kernel \in { KernelCall("overlay_speed_vs_distance", ls, None) : ls \in OverlayArgs }
             \cup UNION { { KernelCall("rolling_delta_vs_reference",
                                        [reference |-> a.reference, laps |-> ls], None) :
                                 ls \in RibbonLists(a) } : a \in RibbonArgs }
             \cup { KernelCall("build_track_map", lap, None) : lap \in TrackArgs }
             \cup { KernelCall("peak_indices", curv, None) : curv \in PeakArgs \cup BumpArgs }
             \cup { KernelCall("export_csv", ls, None) : ls \in CsvArgs }
             \cup { KernelCall("thirds", lap, None) : lap \in ThirdsArgs }

Pending(fn) == IsSome(kernel) /\ Get(kernel).fn = fn /\ Get(kernel).out = None

Return(out) ==
    /\ kernel' = Some([Get(kernel) EXCEPT !.out = Some(out)])
    /\ UNCHANGED <<analysis, reply>> /\ UNCHANGED lockVars
    /\ UNCHANGED sessVars /\ UNCHANGED runVars /\ UNCHANGED ingestVars

Overlay ==
    /\ Pending("overlay_speed_vs_distance")
    /\ Return(overlay_speed_vs_distance(Get(kernel).arg))

RollingDelta ==
    /\ Pending("rolling_delta_vs_reference")
    /\ Return(rolling_delta_vs_reference(Get(kernel).arg.reference, Get(kernel).arg.laps))

TrackMap ==
    /\ Pending("build_track_map")
    /\ Return(build_track_map(Get(kernel).arg))

Peaks ==
    /\ Pending("peak_indices")
    /\ Return(peak_indices(Get(kernel).arg, PeakWindow, PeakThreshold))

\* export_csv, then import_csv of the file written.
CsvRoundTrip ==
    /\ Pending("export_csv")
    /\ Return([ file |-> export_csv(Get(kernel).arg),
                back |-> import_csv(export_csv(Get(kernel).arg), 1) ])

Thirds ==
    /\ Pending("thirds")
    /\ Return(thirds(Get(kernel).arg))

NextKernel == Overlay \/ RollingDelta \/ TrackMap \/ Peaks \/ CsvRoundTrip \/ Thirds

SpecKernel == InitKernel /\ [][NextKernel]_vars

----------------------------------------------------------------------------
(* SpecLock: the consumer threads of two started sources and two command   *)
(* invocations contend for AppSession.inner.  A thread takes the lock,     *)
(* runs the body of its call, and drops the guard; the three are separate  *)
(* steps, so that every interleaving the lock allows is explored.  A       *)
(* thread in `threads` is between lock() and the drop of its guard:        *)
(*   pc      "locked" before the body has run, "done" after                *)
(*   call    the call and its arguments                                    *)
(*   seen    history: laps, builders and workspaces when lock() returned   *)
(*   result  what the body returned                                        *)

MaxLockOps == 3

\* parking_lot::Mutex::lock returns once no thread holds the mutex.
lock_unguarded(m) == TRUE

lock(m) == m = None

ConsumerThreads == Keys

CommandThreads == {"cmd1", "cmd2"}

LockFiles ==
    { [ext |-> "csv", rows |-> <<CsvRow(1, 1000), CsvRow(1, 2000)>>],
      [ext |-> "ndjson", rows |-> <<FileLap(101, 1, 1000)>>],
      [ext |-> "txt", rows |-> <<>>] }

LockRequests == { <<101, 1>>, <<999>> }

LockLapIds == {101, 999}

LockKinds == ExportKinds \cup {"xml"}

LockPayloads == {"a"}

Session == [ laps |-> laps, builders |-> builders, workspaces |-> workspaces ]

\* let inner = state.inner.lock();
Lock(t, call) ==
    /\ t \notin DOMAIN threads
    /\ lock(mutex)
    /\ mutex' = Some(t)
    /\ threads' = MapInsert(threads, t,
                     [ pc |-> "locked", call |-> call, seen |-> Session, result |-> None ])
    /\ UNCHANGED sessVars /\ UNCHANGED runVars /\ UNCHANGED ingestVars /\ UNCHANGED cmdVars

Locked(t, cmd) ==
    t \in DOMAIN threads /\ threads[t].pc = "locked" /\ threads[t].call.cmd = cmd

Done(t, result) ==
    /\ threads' = [threads EXCEPT ![t].pc = "done", ![t].result = Some(result)]
    /\ UNCHANGED mutex /\ UNCHANGED runVars /\ UNCHANGED ingestVars

\* The guard goes out of scope.
Unlock(t) ==
    /\ t \in DOMAIN threads /\ threads[t].pc = "done"
    /\ mutex' = None
    /\ threads' = [x \in (DOMAIN threads) \ {t} |-> threads[x]]
    /\ UNCHANGED sessVars /\ UNCHANGED runVars /\ UNCHANGED ingestVars /\ UNCHANGED cmdVars

\* run_source, the consumer thread: inner.feed_sample(&rx_key, &sample).
RunFeedSample(t) ==
    /\ Locked(t, "feed_sample")
    /\ FeedSample(t, threads[t].call.s)
    /\ Done(t, [ok |-> TRUE, err |-> ""])
    /\ UNCHANGED cmdVars

RunImportFile(t) ==
    /\ Locked(t, "import_file")
    /\ ImportFile(threads[t].call.file)
    /\ Done(t, import_file(threads[t].call.file, nextUuid))

RunSaveWorkspace(t) ==
    /\ Locked(t, "save_workspace")
    /\ SaveWorkspace(threads[t].call.name, threads[t].call.payload)
    /\ Done(t, [ok |-> threads[t].call.ioOk, err |-> ""])
    /\ UNCHANGED cmdVars

\* Mutant of RunExportFile: the laps are moved out of the store.
RunExportFileDrains(t) ==
    /\ Locked(t, "export_file")
    /\ \E order \in ValueOrders(laps) :
          Done(t, export_file(laps, threads[t].call.kind, order, threads[t].call.ioOk))
    /\ laps' = EmptyMap
    /\ UNCHANGED <<builders, workspaces, nextUuid, fedLog, origin, nOps>>
    /\ UNCHANGED cmdVars

RunExportFile(t) ==
    /\ Locked(t, "export_file")
    /\ \E order \in ValueOrders(laps) :
          Done(t, export_file(laps, threads[t].call.kind, order, threads[t].call.ioOk))
    /\ UNCHANGED sessVars /\ UNCHANGED cmdVars

RunListLaps(t) ==
    /\ Locked(t, "list_laps")
    /\ \E order \in ValueOrders(laps) : Done(t, list_laps(laps, order))
    /\ UNCHANGED sessVars /\ UNCHANGED cmdVars

RunAnalyzeLaps(t) ==
    /\ Locked(t, "analyze_laps")
    /\ AnalyzeLaps(threads[t].call.lapIds)
    /\ Done(t, analyze_laps(laps, threads[t].call.lapIds))

RunBuildTrackMap(t) ==
    /\ Locked(t, "build_track_map")
    /\ Done(t, track_map_of(laps, threads[t].call.lapId))
    /\ UNCHANGED sessVars /\ UNCHANGED cmdVars

RunLoadWorkspace(t) ==
    /\ Locked(t, "load_workspace")
    /\ Done(t, load_workspace(workspaces, threads[t].call.name, threads[t].call.disk))
    /\ UNCHANGED sessVars /\ UNCHANGED cmdVars

CallFeedSample ==
    \E t \in ConsumerThreads : \E s \in SamplesOf(t) :
        nOps < MaxLockOps /\ Lock(t, [cmd |-> "feed_sample", s |-> s])

CallImportFile ==
    \E t \in CommandThreads : \E file \in LockFiles :
        nOps < MaxLockOps /\ Lock(t, [cmd |-> "import_file", file |-> file])

CallSaveWorkspace ==
    \E t \in CommandThreads : \E payload \in LockPayloads : \E ioOk \in BOOLEAN :
        Lock(t, [cmd |-> "save_workspace", name |-> "ws", payload |-> payload, ioOk |-> ioOk])

CallExportFile ==
    \E t \in CommandThreads : \E kind \in LockKinds : \E ioOk \in BOOLEAN :
        Lock(t, [cmd |-> "export_file", kind |-> kind, ioOk |-> ioOk])

CallListLaps == \E t \in CommandThreads : Lock(t, [cmd |-> "list_laps"])

CallAnalyzeLaps ==
    \E t \in CommandThreads : \E lapIds \in LockRequests :
        Lock(t, [cmd |-> "analyze_laps", lapIds |-> lapIds])

CallBuildTrackMap ==
    \E t \in CommandThreads : \E lapId \in LockLapIds :
        Lock(t, [cmd |-> "build_track_map", lapId |-> lapId])

CallLoadWorkspace ==
    \E t \in CommandThreads : \E disk \in {None, Some("disk")} :
        Lock(t, [cmd |-> "load_workspace", name |-> "ws", disk |-> disk])

Body ==
    \E t \in ConsumerThreads \cup CommandThreads :
        \/ RunFeedSample(t)
        \/ RunImportFile(t)
        \/ RunSaveWorkspace(t)
        \/ RunExportFile(t)
        \/ RunListLaps(t)
        \/ RunAnalyzeLaps(t)
        \/ RunBuildTrackMap(t)
        \/ RunLoadWorkspace(t)

DropGuard == \E t \in ConsumerThreads \cup CommandThreads : Unlock(t)

NextLock ==
    \/ CallFeedSample \/ CallImportFile \/ CallSaveWorkspace \/ CallExportFile
    \/ CallListLaps \/ CallAnalyzeLaps \/ CallBuildTrackMap \/ CallLoadWorkspace
    \/ Body \/ DropGuard

SpecLock == Init /\ [][NextLock]_vars

----------------------------------------------------------------------------
(* SpecCommands: the commands that can return an error, on a session that  *)
(* two sources feed, files are imported into and a workspace is saved in.  *)
(* Each command is one step, from taking the lock to its return.           *)

MaxCmdOps == 3

\* Files: good ones, one of an unsupported extension, and CSV and NDJSON
\* files whose second record does not parse.
CmdFiles ==
    LockFiles
    \cup { [ext |-> "csv", rows |-> <<CsvRow(1, 1000), BadRecord>>],
           [ext |-> "ndjson", rows |-> <<FileLap(101, 1, 1000), BadRecord>>] }

CmdGames == {"gt7", "iracing"}

CmdDisks == { None, Some([json |-> FALSE, value |-> ""]), Some([json |-> TRUE, value |-> "cars"]) }

CmdKinds == {"csv", "xml"}

\* The F1 source sends lap numbers 1 and 2, the GT7 source none.
CmdSamplesOf(key) ==
    IF key = "gt7"
    THEN { Sample("GT7", 10, 0, <<0, 0>>, 0, 0) }
    ELSE { Sample("F1_2025", 10, 0, <<0, 0>>, 50, n) : n \in {1, 2} }

CmdFeed ==
    \E key \in Keys : \E s \in CmdSamplesOf(key) :
        /\ nOps < MaxCmdOps
        /\ FeedSample(key, s)
        /\ UNCHANGED runVars /\ UNCHANGED ingestVars /\ UNCHANGED cmdVars /\ UNCHANGED lockVars

CmdImport == \E file \in CmdFiles : nOps < MaxCmdOps /\ ImportFileCmd(file)

CmdSave == \E ioOk \in BOOLEAN : SaveWorkspaceCmd("ws", "a", ioOk)

CmdTrackMap == \E lapId \in LockLapIds : BuildTrackMapCmd(lapId)

CmdExport == \E kind \in CmdKinds : \E ioOk \in BOOLEAN : ExportFileCmd(kind, ioOk)

CmdCarsAndTracks == \E game \in CmdGames : \E disk \in CmdDisks : CarsAndTracksCmd(game, disk)

NextCommands ==
    CmdFeed \/ CmdImport \/ CmdSave \/ CmdTrackMap \/ CmdExport \/ CmdCarsAndTracks

SpecCommands == Init /\ [][NextCommands]_vars

----------------------------------------------------------------------------
(* Observations used by the properties below *)

\* The laps in the store that the builder of `key` inserted.
StoredOf(key) == {id \in DOMAIN laps : origin[id].src = key}

\* The indices, in the stream of `key`, of the samples that closed a lap.
ClosedAt(key) == {origin[id].at : id \in StoredOf(key)}

\* Sample s cannot fire the heuristic rule: rule (b) needs speed_mps > 1.0.
NoHeuristic(s) == s.speed_mps <= RollSpeedDeci

NonDecreasing(seq) == \A i \in 1..Len(seq) : \A j \in i..Len(seq) : seq[i] <= seq[j]

TimesOf(lap) == [i \in 1..Len(lap.points) |-> lap.points[i].t_ms]

DistancesOf(lap) == [i \in 1..Len(lap.points) |-> lap.points[i].lap_distance_m]

\* The stream of `key` is k >= 1 samples of lap p > 0 followed by one of lap p + 1.
AuthoritativeStream(st) ==
    /\ Len(st) >= 2
    /\ st[1].current_lap > 0
    /\ \A i \in 1..Len(st) : NoHeuristic(st[i])
    /\ \A i \in 1..(Len(st) - 1) : st[i].current_lap = st[1].current_lap
    /\ Last(st).current_lap = st[1].current_lap + 1

\* C1: after k samples with current_lap = p > 0 and then one with p + 1, the
\* store holds exactly one lap of the key, that lap has exactly k points, and
\* the builder's current lap is numbered p + 1.
C1_AuthoritativeRolloverKPoints ==
    \A key \in DOMAIN fedLog :
        AuthoritativeStream(fedLog[key]) =>
            /\ Cardinality(StoredOf(key)) = 1
            /\ \A id \in StoredOf(key) : Len(laps[id].points) = Len(fedLog[key]) - 1
            /\ IsSome(builders[key].current)
            /\ Get(builders[key].current).meta.lap_number = Last(fedLog[key]).current_lap

\* What the code does in C1's case: the triggering sample is the closed lap's
\* last point, so the lap has k + 1 points.
C1_CodeKeepsTriggeringSample ==
    \A key \in DOMAIN fedLog :
        AuthoritativeStream(fedLog[key]) =>
            /\ Cardinality(StoredOf(key)) = 1
            /\ \A id \in StoredOf(key) : Len(laps[id].points) = Len(fedLog[key])
            /\ IsSome(builders[key].current)
            /\ Get(builders[key].current).meta.lap_number = Last(fedLog[key]).current_lap
            /\ Get(builders[key].current).points = <<>>

\* The call feed_sample(key, s) is the step being taken.
FeedStep(key) ==
    /\ key \in DOMAIN fedLog'
    /\ Len(fedLog'[key]) = 1 + (IF key \in DOMAIN fedLog THEN Len(fedLog[key]) ELSE 0)

\* The step closes a lap: a lap enters the store.
ClosesLap == DOMAIN laps' # DOMAIN laps

\* Rule (a) as the specification states it: s.current_lap > last.current_lap > 0.
RuleA(key, s) ==
    /\ key \in DOMAIN builders
    /\ IsSome(builders[key].last)
    /\ s.current_lap > Get(builders[key].last).current_lap
    /\ Get(builders[key].last).current_lap > 0

\* Rule (b): start_pos set, within 20 m of it, more than 15 s since the lap's
\* first point, speed above 1 m/s.
RuleB(key, s) ==
    LET t_ms == s.sim_time_s * 1000
        sp == builders'[key].start_pos
        first == IF /\ key \in DOMAIN builders
                    /\ IsSome(builders[key].current)
                    /\ Len(Get(builders[key].current).points) > 0
                 THEN Get(builders[key].current).points[1].t_ms
                 ELSE t_ms
    IN  /\ IsSome(sp)
        /\ (s.world_pos_x - Get(sp)[1]) * (s.world_pos_x - Get(sp)[1])
             + (s.world_pos_z - Get(sp)[2]) * (s.world_pos_z - Get(sp)[2])
             < NearStartM * NearStartM
        /\ t_ms - first > MinLapMs
        /\ s.speed_mps > RollSpeedDeci

\* C2: a sample closes the current lap if and only if rule (a) or rule (b)
\* holds; a change of current_lap from 0 to a positive number closes nothing.
C2_RolloverIffRuleAOrB ==
    [][ \A key \in DOMAIN fedLog' :
          FeedStep(key) =>
            LET s == Last(fedLog'[key])
            IN  ClosesLap <=> (RuleA(key, s) \/ RuleB(key, s)) ]_vars

\* C4: in every stored lap the points' t_ms are non-decreasing in point order.
C4_StoredTimesNonDecreasing ==
    \A id \in DOMAIN laps : NonDecreasing(TimesOf(laps[id]))

\* C5: in every stored lap lap_distance_m is non-decreasing in point order.
C5_StoredDistancesNonDecreasing ==
    \A id \in DOMAIN laps : NonDecreasing(DistancesOf(laps[id]))

----------------------------------------------------------------------------
(* C3: the heuristic rollover, stated on the stream of samples of a key *)

TMs(s) == s.sim_time_s * 1000

NoLapNumbers(st) == \A i \in 1..Len(st) : st[i].current_lap = 0

\* The stream starts moving: some sample has speed_mps > 0.1.
StartsMoving(st) == \E i \in 1..Len(st) : st[i].speed_mps > StartSpeedDeci

\* The first sample with speed_mps > 0.1; its position is start_pos.
StartIdx(st) ==
    CHOOSE i \in 1..Len(st) :
        /\ st[i].speed_mps > StartSpeedDeci
        /\ \A q \in 1..(i - 1) : st[q].speed_mps <= StartSpeedDeci

\* Sample i is within 20 m of start_pos.
InsideRadius(st, i) ==
    LET s0 == st[StartIdx(st)]
        dx == st[i].world_pos_x - s0.world_pos_x
        dy == st[i].world_pos_z - s0.world_pos_z
    IN  dx * dx + dy * dy < NearStartM * NearStartM

\* Sample i is inside the radius with speed > 1 m/s, more than 15 s after
\* the stream's first sample.
InsideLateAndFast(st, i) ==
    /\ StartsMoving(st)
    /\ i >= StartIdx(st)
    /\ InsideRadius(st, i)
    /\ st[i].speed_mps > RollSpeedDeci
    /\ TMs(st[i]) - TMs(st[1]) > MinLapMs

\* Sample r returns: an earlier sample, after the start, was outside the radius.
Returning(st, r) ==
    /\ InsideLateAndFast(st, r)
    /\ \E j \in StartIdx(st)..(r - 1) : ~InsideRadius(st, j)

FirstReturn(st, r) ==
    /\ Returning(st, r)
    /\ \A q \in 1..(r - 1) : ~Returning(st, q)

\* Exactly one lap by sample r, closed at r; and no sample of the new lap
\* that arrives less than 15 s after the new lap's first point closes it.
OneLapAtReturn(key, st, r) ==
    /\ ClosedAt(key) \cap (1..r) = {r}
    /\ \A q \in (r + 1)..Len(st) :
          ( /\ ClosedAt(key) \cap ((r + 1)..(q - 1)) = {}
            /\ TMs(st[q]) - TMs(st[r + 1]) < MinLapMs )
          => q \notin ClosedAt(key)

\* C3 as stated: for a source without lap numbers, a stream that starts
\* moving, leaves the 20 m radius and returns inside it after more than 15 s
\* with speed > 1 m/s emits exactly one lap, closed at the first returning
\* sample, and no sample less than 15 s into the new lap closes a lap.
C3_ExactlyOneLapAtFirstReturn ==
    \A key \in DOMAIN fedLog : \A r \in 1..Len(fedLog[key]) :
        (NoLapNumbers(fedLog[key]) /\ FirstReturn(fedLog[key], r))
            => OneLapAtReturn(key, fedLog[key], r)

\* No sample before r is inside the radius, late and fast: the rule closes a
\* lap at such a sample whether or not the car has left the radius.
NoEarlierTrigger(st, r) == \A q \in 1..(r - 1) : ~InsideLateAndFast(st, q)

\* C3 amended: the same, for streams in which no sample before the first
\* returning sample is itself within 20 m of start_pos with speed > 1 m/s
\* more than 15 s after the first sample.
C3_OneLapAtFirstReturnUnlessEarlierTrigger ==
    \A key \in DOMAIN fedLog : \A r \in 1..Len(fedLog[key]) :
        ( /\ NoLapNumbers(fedLog[key])
          /\ FirstReturn(fedLog[key], r)
          /\ NoEarlierTrigger(fedLog[key], r) )
            => OneLapAtReturn(key, fedLog[key], r)

\* C3 witness: the car left, returned at sample r (which closed the one lap),
\* and two samples later is still inside the radius, fast, 10 s into the new
\* lap, which is still open.
C3_Witness ==
    \E key \in DOMAIN fedLog : \E r \in 1..Len(fedLog[key]) :
        LET st == fedLog[key]
        IN  /\ NoLapNumbers(st)
            /\ FirstReturn(st, r)
            /\ NoEarlierTrigger(st, r)
            /\ ClosedAt(key) = {r}
            /\ Len(st) = r + 2
            /\ InsideRadius(st, r + 2)
            /\ st[r + 2].speed_mps > RollSpeedDeci
            /\ TMs(st[r + 2]) - TMs(st[r + 1]) = 10000
            /\ Len(Get(builders[key].current).points) = 2

----------------------------------------------------------------------------
\* C6: every lap in the store (closed by the builder or imported) has
\* total_time_ms = last point's t_ms - first point's t_ms.
C6_TotalTimeIsLastMinusFirst ==
    \A id \in DOMAIN laps :
        Len(laps[id].points) > 0 =>
            laps[id].total_time_ms = Last(laps[id].points).t_ms - laps[id].points[1].t_ms

\* C7: once a lap id is in the store, the record under it never changes.
C7_StoredLapsImmutable ==
    [][ \A id \in DOMAIN laps : id \in DOMAIN laps' /\ laps'[id] = laps[id] ]_vars

\* The step is a feed_sample call under `key`.
FedUnder(key) ==
    /\ key \in DOMAIN fedLog'
    /\ Len(fedLog'[key]) = (IF key \in DOMAIN fedLog THEN Len(fedLog[key]) ELSE 0) + 1

\* The step closes the current lap of the builder of `key`: the lap held
\* before the step is inserted under its id and replaced in the builder.
RollsOver(key, id) ==
    /\ FedUnder(key)
    /\ key \in DOMAIN builders
    /\ IsSome(builders[key].current)
    /\ Get(builders[key].current).id = id
    /\ Get(builders'[key].current).id # id

\* C29: the Lap Store holds only sealed laps: the lap a builder holds as
\* current is never in the store; a lap enters the store only at a rollover
\* of its builder or by import; and no sample fed after a lap was inserted
\* changes it.
C29_StoreHoldsOnlySealedLaps ==
    /\ [](\A key \in DOMAIN builders :
            IsSome(builders[key].current) =>
                Get(builders[key].current).id \notin DOMAIN laps)
    /\ [][ /\ \A id \in (DOMAIN laps') \ (DOMAIN laps) :
                \/ origin'[id].src = "import"
                \/ \E key \in Keys : RollsOver(key, id)
           /\ (\E key \in Keys : FedUnder(key)) =>
                 \A id \in DOMAIN laps : id \in DOMAIN laps' /\ laps'[id] = laps[id]
         ]_vars

\* A lap closed by a rollover is in the store and a later sample of the same
\* source has gone into the builder's next lap.
C29_Witness ==
    \E key \in DOMAIN builders : \E id \in DOMAIN laps :
        /\ origin[id].src = key
        /\ Len(fedLog[key]) > origin[id].at
        /\ IsSome(builders[key].current)
        /\ Len(Get(builders[key].current).points) >= 1
        /\ Len(laps[id].points) >= 2

\* The stored laps the builder of `key` closed.
ClosedBy(key) == { id \in DOMAIN laps : origin[id].src = key }

\* The samples of `key`, by their number in the order fed, that stored lap
\* `id` holds: its rollover came with sample origin[id].at.
SamplesIn(id) == (origin[id].at - Len(laps[id].points) + 1)..origin[id].at

\* The samples of `key` the builder's current lap holds: the last ones fed.
SamplesInCurrent(key) ==
    (Len(fedLog[key]) - Len(Get(builders[key].current).points) + 1)..Len(fedLog[key])

\* Point p records sample s.
Records(p, s) ==
    /\ p.t_ms = s.sim_time_s * 1000
    /\ p.x = s.world_pos_x /\ p.y = s.world_pos_z
    /\ p.speed_kph = s.speed_mps * 36

\* C35: after any sequence of feed_sample calls for a key, every sample fed
\* has produced exactly one point in exactly one lap, a stored lap of the key
\* or the builder's current lap, so that the points of those laps are as
\* many as the samples fed; the builder always has a current lap, each call
\* inserts at most one lap, and every lap the builder inserted has at least
\* one point.
C35_EverySampleIsOnePoint ==
    /\ [](\A key \in DOMAIN fedLog :
            /\ key \in DOMAIN builders
            /\ IsSome(builders[key].current)
            /\ \A k \in 1..Len(fedLog[key]) :
                  Cardinality({ id \in ClosedBy(key) : k \in SamplesIn(id) })
                    + (IF k \in SamplesInCurrent(key) THEN 1 ELSE 0) = 1
            /\ \A id \in ClosedBy(key) :
                  /\ Len(laps[id].points) >= 1
                  /\ origin[id].at - Len(laps[id].points) >= 0
                  /\ \A j \in 1..Len(laps[id].points) :
                        Records(laps[id].points[j],
                                fedLog[key][origin[id].at - Len(laps[id].points) + j])
            /\ Len(Get(builders[key].current).points) <= Len(fedLog[key])
            /\ \A j \in 1..Len(Get(builders[key].current).points) :
                  Records(Get(builders[key].current).points[j],
                          fedLog[key][Len(fedLog[key])
                                        - Len(Get(builders[key].current).points) + j]))
    /\ [][ \A key \in Keys :
              FedUnder(key) => Cardinality((DOMAIN laps') \ (DOMAIN laps)) <= 1 ]_vars

\* Three samples of a key have been fed: the first two are in a lap its
\* builder closed, the third is in the current lap.
SamplesSplitOverTwoLaps ==
    \E key \in DOMAIN fedLog : \E id \in ClosedBy(key) :
        /\ Len(fedLog[key]) = 3
        /\ SamplesIn(id) = 1..2
        /\ SamplesInCurrent(key) = 3..3

\* C36: feed_sample(key, s) changes only the builder of that key and adds at
\* most one lap: the builders of all other keys, the workspaces and every
\* lap already in the Lap Store are unchanged, and no lap is removed.
C36_FeedTouchesOnlyItsBuilder ==
    [][ \A key \in Keys :
          FedUnder(key) =>
              /\ DOMAIN builders' = (DOMAIN builders) \cup {key}
              /\ \A other \in (DOMAIN builders) \ {key} : builders'[other] = builders[other]
              /\ workspaces' = workspaces
              /\ \A id \in DOMAIN laps : id \in DOMAIN laps' /\ laps'[id] = laps[id]
              /\ Cardinality((DOMAIN laps') \ (DOMAIN laps)) <= 1 ]_vars

\* The F1 builder has closed a lap and the GT7 source has been fed, in a
\* session that holds a saved workspace.
FedBesideOtherState ==
    /\ workspaces # EmptyMap
    /\ \E id \in DOMAIN laps : origin[id].src = "f1:20777:2025"
    /\ "gt7" \in DOMAIN builders

\* The samples fed under `key` that make the car count as moving.
MovingSamples(key) ==
    { k \in 1..Len(fedLog[key]) : fedLog[key][k].speed_mps > StartSpeedDeci }

\* C37: start_pos is write-once per source key.  It is unset until the
\* first sample with speed_mps > 0.1, it is then the (world_pos_x,
\* world_pos_z) of that sample, and no later sample or rollover changes it;
\* the heuristic rule closes no lap in a call that leaves it unset.
C37_StartPosWriteOnce ==
    /\ [](\A key \in DOMAIN builders :
            IF MovingSamples(key) = {}
            THEN builders[key].start_pos = None
            ELSE LET first == CHOOSE k \in MovingSamples(key) :
                                  \A m \in MovingSamples(key) : k <= m
                 IN  builders[key].start_pos =
                         Some(<<fedLog[key][first].world_pos_x,
                                fedLog[key][first].world_pos_z>>))
    /\ [][ /\ \A key \in DOMAIN builders :
                IsSome(builders[key].start_pos) =>
                    builders'[key].start_pos = builders[key].start_pos
           /\ \A key \in DOMAIN builders' :
                ( /\ FedUnder(key)
                  /\ builders'[key].start_pos = None
                  /\ ~( /\ key \in DOMAIN builders
                        /\ ExplicitRoll(builders[key].last, Last(fedLog'[key])) ) )
                => DOMAIN laps' = DOMAIN laps ]_vars

\* The first sample stood still; start_pos was set by the second sample
\* and is still its position after a later moving sample at another
\* position and after a lap was closed.
StartPosKeptOverRollovers ==
    \E key \in DOMAIN builders :
        /\ Len(fedLog[key]) >= 3
        /\ fedLog[key][1].speed_mps = 0
        /\ fedLog[key][2].speed_mps > StartSpeedDeci
        /\ builders[key].start_pos = Some(<<fedLog[key][2].world_pos_x,
                                             fedLog[key][2].world_pos_z>>)
        /\ \E k \in 3..Len(fedLog[key]) :
              /\ fedLog[key][k].speed_mps > StartSpeedDeci
              /\ fedLog[key][k].world_pos_x # fedLog[key][2].world_pos_x
        /\ ClosedBy(key) # {}

----------------------------------------------------------------------------
(* Sources, channels and shutdown *)

\* The send numbers of the samples recorded in stored lap `id` of `key`: the
\* samples fed after the previous rollover of the key, up to and including
\* the one that closed the lap.
StampsOfLap(key, id) ==
    LET at == origin[id].at
        before == {a \in ClosedAt(key) : a < at}
        prev == IF before = {} THEN 0
                ELSE CHOOSE a \in before : \A c \in before : c <= a
    IN  SubSeq(fedStamps[key], prev + 1, at)

StrictlyIncreasing(seq) ==
    \A i \in 1..Len(seq) : \A j \in (i + 1)..Len(seq) : seq[i] < seq[j]

\* C8: within one source key, a lap inserted earlier holds only samples sent
\* before every sample of a lap inserted later, and the points of each lap are
\* in the order their samples were sent.
C8_LapsInSendOrder ==
    \A key \in DOMAIN fedStamps :
        \A A \in StoredOf(key) :
            /\ Len(laps[A].points) = Len(StampsOfLap(key, A))
            /\ StrictlyIncreasing(StampsOfLap(key, A))
            /\ \A B \in StoredOf(key) :
                   origin[A].at < origin[B].at =>
                       \A i \in 1..Len(StampsOfLap(key, A)) :
                           \A j \in 1..Len(StampsOfLap(key, B)) :
                               StampsOfLap(key, A)[i] < StampsOfLap(key, B)[j]

\* The sources started under `key`.
SourcesOf(key) == {i \in 1..Len(sources) : sources[i].key = key}

\* The order of C8 for the keys that only one source was ever started under.
LapsInSendOrderOfSingleSourceKeys ==
    \A key \in DOMAIN fedStamps :
        Cardinality(SourcesOf(key)) = 1 =>
            \A A \in StoredOf(key) :
                /\ Len(laps[A].points) = Len(StampsOfLap(key, A))
                /\ StrictlyIncreasing(StampsOfLap(key, A))
                /\ \A B \in StoredOf(key) :
                       origin[A].at < origin[B].at =>
                           \A i \in 1..Len(StampsOfLap(key, A)) :
                               \A j \in 1..Len(StampsOfLap(key, B)) :
                                   StampsOfLap(key, A)[i] < StampsOfLap(key, B)[j]

SingleSourceKeyHasStoredLap ==
    \E key \in DOMAIN fedStamps :
        Cardinality(SourcesOf(key)) = 1 /\ StoredOf(key) # {}

\* C9: an adapter whose send has failed (the receiver was dropped) has left
\* its run loop: run has returned.
C9_FailedSendEndsRun ==
    \A i \in 1..Len(sources) :
        sources[i].send_errs >= 1 => sources[i].pstate \in {"ok", "err"}

\* The part of C9 that the GT7 and LMU loops meet.
FailedSendEndsRunGt7Lmu ==
    \A i \in 1..Len(sources) :
        (sources[i].kind \in {"GT7", "LMU"} /\ sources[i].send_errs >= 1)
            => sources[i].pstate = "ok"

Gt7LmuSendFailed ==
    \E i \in 1..Len(sources) : \E j \in 1..Len(sources) :
        /\ sources[i].kind = "GT7" /\ sources[i].send_errs >= 1
        /\ sources[j].kind = "LMU" /\ sources[j].send_errs >= 1

\* C10: once stop_all has returned, no source started before it still has a
\* running producer with a live receiver.
C10_StopAllStopsSources ==
    IsSome(stopMark) =>
        \A i \in 1..Get(stopMark) :
            ~(sources[i].pstate = "running" /\ sources[i].rx_alive)

----------------------------------------------------------------------------
(* The F1 decoder *)

\* C11: every sample an F1 source sends is the sample its own datagrams
\* alone determine; the datagrams of another source change no field of it.
C11_F1SamplesFromOwnDatagrams ==
    \A k \in 1..Len(f1Sent) : f1Sent[k].s = f1Sent[k].own

\* The block of the player's car lies inside the datagram.
BlockFits(dg) ==
    CASE dg.packet_id = PACKET_MOTION ->
             dg.len >= F1Base + dg.player_car_index * MotionStride + MotionBlock
      [] dg.packet_id = PACKET_LAPDATA ->
             dg.len >= F1Base + dg.player_car_index * LapStride + LapBlock
      [] dg.packet_id = PACKET_CAR_TELEMETRY ->
             dg.len >= F1Base + dg.player_car_index * TelemetryStride + TelemetryBlock
      [] OTHER -> TRUE

\* C12: no sample is sent for a datagram shorter than 32 bytes, nor for a
\* Motion, LapData or CarTelemetry datagram too short for the player's block.
C12_BadDatagramsDropped ==
    \A k \in 1..Len(f1Sent) :
        /\ f1Sent[k].dg.len >= F1MinLen
        /\ BlockFits(f1Sent[k].dg)

\* The part of C12 the run loop meets: the 32-byte minimum.
ShortDatagramsDropped ==
    \A k \in 1..Len(f1Sent) : f1Sent[k].dg.len >= F1MinLen

\* The fields of a sample that come from the latest-values state.
LatestFields ==
    { "speed_mps", "throttle", "brake", "gear", "engine_rpm",
      "world_pos_x", "world_pos_z", "lap_distance_m", "current_lap" }

\* The fields the packet type of the datagram carries.
CarriedFields(dg) ==
    CASE dg.packet_id = PACKET_MOTION -> {"world_pos_x", "world_pos_z"}
      [] dg.packet_id = PACKET_LAPDATA -> {"lap_distance_m", "current_lap"}
      [] dg.packet_id = PACKET_CAR_TELEMETRY ->
             {"speed_mps", "throttle", "brake", "gear", "engine_rpm"}
      [] OTHER -> {}

\* The samples source i sent before the k-th sample sent.
EarlierOf(k) == { j \in 1..(k - 1) : f1Sent[j].src = f1Sent[k].src }

\* The k-th sample sent holds, in every field its datagram's packet type
\* does not carry, the value of the sample `pick` gives for its predecessor.
KeepsUncarried(k, pick(_)) ==
    EarlierOf(k) # {} =>
        LET j == CHOOSE m \in EarlierOf(k) : \A o \in EarlierOf(k) : o <= m
        IN  \A f \in LatestFields \ CarriedFields(f1Sent[k].dg) :
                pick(f1Sent[k])[f] = pick(f1Sent[j])[f]

\* C33: every datagram of at least 32 bytes with a readable header produces
\* exactly one sample, and in that sample every field that the datagram's
\* packet type does not carry equals its value in the sample the same
\* adapter emitted before.
C33_UncarriedFieldsKeepLatestValues ==
    /\ [](\A k \in 1..Len(f1Sent) : KeepsUncarried(k, LAMBDA e : e.s))
    /\ [][ \A i \in 1..Len(sources) : \A dg \in DatagramsOf(i) :
              (F1Recv(i, dg) /\ dg.len >= F1MinLen) =>
                  /\ Len(f1Sent') = Len(f1Sent) + 1
                  /\ Last(f1Sent').dg = dg /\ Last(f1Sent').src = i ]_vars

\* What holds of the code: one sample per datagram of at least 32 bytes,
\* and the latest values carry over in the samples an adapter would send if
\* the state were its own.
OwnLatestValuesCarryOver ==
    /\ [](\A k \in 1..Len(f1Sent) : KeepsUncarried(k, LAMBDA e : e.own))
    /\ [][ \A i \in 1..Len(sources) : \A dg \in DatagramsOf(i) :
              (F1Recv(i, dg) /\ dg.len >= F1MinLen) =>
                  /\ Len(f1Sent') = Len(f1Sent) + 1
                  /\ Last(f1Sent').dg = dg /\ Last(f1Sent').src = i ]_vars

----------------------------------------------------------------------------
(* Errors of the sources *)

\* C13: a start command given a port that a running source holds adds no
\* source (no producer task, no consumer thread): it only returns an error.
C13_UnbindableStartAddsNothing ==
    [][ Len(sources') > Len(sources) =>
            (Last(sources').kind \in {"F1", "GT7"} => PortFree(Last(sources').port)) ]_vars

\* Source i leaves run with an error in this step.
Fails(i) ==
    /\ sources[i].pstate \in {"spawned", "running"}
    /\ sources'[i].pstate = "err"

\* C14: the step in which a source fails on its socket or mapping changes no
\* other source (producer, channel, consumer), no builder and no lap, and a
\* failed source sends nothing from then on.
C14_IoErrorIsLocal ==
    [][ \A i \in 1..Len(sources) :
            /\ Fails(i) =>
                   /\ \A j \in (1..Len(sources)) \ {i} : sources'[j] = sources[j]
                   /\ laps' = laps
                   /\ builders' = builders
                   /\ workspaces' = workspaces
            /\ sources[i].pstate = "err" =>
                   /\ sources'[i].pstate = "err"
                   /\ Len(sources'[i].chan) <= Len(sources[i].chan)
                   /\ sources'[i].send_errs = sources[i].send_errs ]_vars

\* A source has failed and, after that, a source of another key has sent a
\* sample that its consumer has fed.
C14_Witness ==
    \E i \in 1..Len(sources) : \E j \in 1..Len(sources) :
        /\ sources[i].pstate = "err"
        /\ sources[j].key # sources[i].key
        /\ sources[j].key \in DOMAIN fedStamps
        /\ \E k \in 1..Len(fedStamps[sources[j].key]) :
               fedStamps[sources[j].key][k] > sources[i].died_at

----------------------------------------------------------------------------
(* The GT7 run loop *)

\* C15: a socket error in the GT7 run loop, from the receive or from the
\* heartbeat send, ends run with an error.
C15_Gt7SocketErrorsFatal ==
    \A i \in 1..Len(sources) :
        (sources[i].kind = "GT7" /\ gt7.errs >= 1) => sources[i].pstate = "err"

Gt7Running == \E i \in 1..Len(sources) : sources[i].kind = "GT7" /\ sources[i].pstate = "running"

\* The ticks of the interval before time now: at 0, 800, 1600, ...
TicksBefore(now) == (now + HeartbeatMs - 1) \div HeartbeatMs

\* C16: every heartbeat byte is the normalised variant; there is at most one
\* heartbeat per tick of the 800 ms interval, the first at start, missed ticks
\* not made up; while the adapter runs, is polled and the socket takes the
\* byte, every tick that has passed has had its heartbeat, whether or not
\* datagrams keep arriving: with variant 'A' at least one byte 'A' (0x41)
\* after 1 s and at least two after 2 s.
C16_Gt7Heartbeat ==
    /\ \A k \in 1..Len(gt7.sent) : gt7.sent[k] = normalise_variant(gt7.variant)
    /\ \A k \in 1..Len(gt7.sent) : gt7.sent[k] \in {"A", "B", "~"}
    /\ gt7.variant \notin {"B", "~"} => \A k \in 1..Len(gt7.sent) : gt7.sent[k] = "A"
    /\ Len(gt7.sent) + gt7.errs <= 1 + gt7.now \div HeartbeatMs
    /\ (Gt7Running /\ ~gt7.stalled) =>
           /\ Len(gt7.sent) + gt7.errs >= TicksBefore(gt7.now)
           /\ (gt7.variant = "A" /\ gt7.errs = 0 /\ gt7.now >= 1000) => Len(gt7.sent) >= 1
           /\ (gt7.variant = "A" /\ gt7.errs = 0 /\ gt7.now >= 2000) => Len(gt7.sent) >= 2

\* Two seconds after start the adapter is still running, was polled all the
\* time, a datagram is waiting again, and samples have been received.
C16_Witness ==
    /\ Gt7Running
    /\ ~gt7.stalled
    /\ gt7.variant = "A"
    /\ gt7.errs = 0
    /\ gt7.now >= 2000
    /\ gt7.pending
    /\ sendClock >= 2
    /\ Len(gt7.sent) >= 2

\* The interval skips missed ticks: after a stall longer than a period the
\* heartbeats are fewer than the ticks that have passed.
Gt7SkippedTick ==
    /\ Gt7Running
    /\ gt7.stalled
    /\ ~TickReady(gt7)
    /\ gt7.errs = 0
    /\ Len(gt7.sent) + 1 < TicksBefore(gt7.now)

----------------------------------------------------------------------------
(* LMU validation *)

Torn(telem) == telem.begin # telem.end

ControlsOutOfRange(telem) ==
    \/ telem.mThrottle < 0 \/ telem.mThrottle > 100
    \/ telem.mBrake < 0 \/ telem.mBrake > 100
    \/ telem.mGear < -1 \/ telem.mGear > 12

\* C17: a read that is torn, or whose throttle or brake is outside [0,1], or
\* whose gear is outside [-1,12], puts no sample on the channel, and the
\* adapter goes on to the next tick.
C17_LmuRejectsTornAndOutOfRange ==
    \A k \in 1..Len(lmuReads) :
        (Torn(lmuReads[k].telem) \/ ControlsOutOfRange(lmuReads[k].telem)) =>
            /\ lmuReads[k].sample = None
            /\ lmuReads[k].goes_on

\* A torn read, then a read with throttle 1.5, both skipped, with the adapter
\* still running and the receiver alive.
C17_Witness ==
    /\ Len(lmuReads) = 2
    /\ Torn(lmuReads[1].telem) /\ ~ControlsOutOfRange(lmuReads[1].telem)
    /\ ~Torn(lmuReads[2].telem) /\ lmuReads[2].telem.mThrottle = 150
    /\ lmuReads[2].telem.mBrake = 0 /\ lmuReads[2].telem.mGear = 12
    /\ lmuReads[1].sample = None /\ lmuReads[2].sample = None
    /\ \A i \in 1..Len(sources) : sources[i].pstate = "running" /\ sources[i].rx_alive

\* A read that passes validate is sent.
LmuValidReadSent ==
    \E k \in 1..Len(lmuReads) : IsSome(lmuReads[k].sample)

VelocityBad(telem) ==
    \/ telem.mLocalVel = None
    \/ Get(telem.mLocalVel) > 1000
    \/ Get(telem.mLocalVel) < -1000

\* C18: a read whose local velocity is not finite or outside +-1000 m/s puts
\* no sample on the channel.
C18_LmuRejectsBadVelocity ==
    \A k \in 1..Len(lmuReads) :
        VelocityBad(lmuReads[k].telem) => lmuReads[k].sample = None

\* C19: every sample the LMU adapter emits has throttle and brake in [0,1]
\* and gear in [-1,8].
C19_LmuSampleRanges ==
    \A k \in 1..Len(lmuReads) :
        IsSome(lmuReads[k].sample) =>
            LET s == Get(lmuReads[k].sample)
            IN  /\ s.throttle >= 0 /\ s.throttle <= 100
                /\ s.brake >= 0 /\ s.brake <= 100
                /\ s.gear >= -1 /\ s.gear <= 8

\* The part of C19 that validate gives: throttle and brake in [0,1].
LmuSampleControlsInRange ==
    \A k \in 1..Len(lmuReads) :
        IsSome(lmuReads[k].sample) =>
            LET s == Get(lmuReads[k].sample)
            IN  /\ s.throttle >= 0 /\ s.throttle <= 100
                /\ s.brake >= 0 /\ s.brake <= 100

----------------------------------------------------------------------------
(* Analysis *)

\* C20: analyze_laps over N lap ids either returns results computed over all
\* N laps or returns an error and no output.
C20_AnalyzeAllOrNothing ==
    IsSome(analysis) =>
        LET a == Get(analysis)
        IN  IF a.result.ok
            THEN a.result.over = a.lapIds
            ELSE a.result.over = <<>>

\* The part of C20 the code meets: no lap found, whether the request is
\* empty or names only unknown ids, is an error without output.
AnalyzeNothingFoundIsError ==
    IsSome(analysis) =>
        (Get(analysis).result.over = <<>> <=> ~Get(analysis).result.ok)

\* C21: when analyze_laps succeeds, the lap it uses as reference for the delta
\* ribbon and the corner metrics has the minimum total_time_ms among the
\* input laps; when the input is empty it returns an error.
C21_ReferenceIsFastest ==
    [][\A lapIds \in SeqsUpTo2(RequestIds) :
          AnalyzeLaps(lapIds) =>
              LET r == Get(analysis').result
              IN  /\ r.ok =>
                        /\ IsSome(r.reference)
                        /\ \E k \in 1..Len(lapIds) : lapIds[k] = Get(r.reference)
                        /\ \A k \in 1..Len(lapIds) :
                              lapIds[k] \in DOMAIN laps =>
                                  laps[Get(r.reference)].total_time_ms
                                      <= laps[lapIds[k]].total_time_ms
                  /\ lapIds = <<>> => ~r.ok]_vars

\* analyze_laps has succeeded over two laps of different times, the faster
\* one named second in the request.
C21_Witness ==
    /\ IsSome(analysis)
    /\ Get(analysis).result.ok
    /\ Len(Get(analysis).result.over) = 2
    /\ Get(analysis).result.reference = Some(Get(analysis).result.over[2])
    /\ \A k \in 1..2 : Get(analysis).result.over[k] \in DOMAIN laps
    /\ laps[Get(analysis).result.over[2]].total_time_ms
           < laps[Get(analysis).result.over[1]].total_time_ms

----------------------------------------------------------------------------
(* The analysis kernel *)

Returned(fn) == IsSome(kernel) /\ Get(kernel).fn = fn /\ IsSome(Get(kernel).out)

\* The greatest of the laps' last distances, and 0 when that is smaller or
\* no lap has a point.
OverlayMaxLen(ls) ==
    LET lasts == { Last(ls[k].points).lap_distance_m :
                       k \in {j \in 1..Len(ls) : ls[j].points # <<>>} } \cup {0}
    IN  CHOOSE m \in lasts : \A x \in lasts : x <= m

\* The first point of the lap nearest to distance d.
FirstNearest(lap, d) ==
    CHOOSE k \in 1..Len(lap.points) :
        /\ \A j \in 1..Len(lap.points) :
               Abs(lap.points[k].lap_distance_m - d) <= Abs(lap.points[j].lap_distance_m - d)
        /\ \A j \in 1..(k - 1) :
               Abs(lap.points[k].lap_distance_m - d) < Abs(lap.points[j].lap_distance_m - d)

\* The argument of the worked example: two laps with points (0, 100 km/h)
\* and (50, 120 km/h).
OverlayExample ==
    << KernelLap(1, <<KernelPoint(0, 0, 10000, 0, 0), KernelPoint(0, 50, 12000, 0, 0)>>),
       KernelLap(2, <<KernelPoint(0, 0, 10000, 0, 0), KernelPoint(0, 50, 12000, 0, 0)>>) >>

\* C25: overlay_speed_vs_distance(laps) has exactly floor(max_len)+1 rows,
\* max_len being the maximum over laps of the last point's lap_distance_m (at
\* least one row for any input); row i has distance i; each row has one speed
\* entry per lap id, the speed_kph of the lap's point nearest to the row's
\* distance, the first such point winning ties.  Two laps with points (0,100),
\* (50,120) give 51 rows, row 0 = 100, row 50 = 120, row 25 = 100.
C25_OverlayRows ==
    Returned("overlay_speed_vs_distance") =>
        LET ls == Get(kernel).arg
            rows == Get(Get(kernel).out)
        IN  /\ Len(rows) = OverlayMaxLen(ls) + 1
            /\ Len(rows) >= 1
            /\ \A i \in 1..Len(rows) :
                  /\ rows[i].distance = i - 1
                  /\ DOMAIN rows[i].speed = { ls[k].id : k \in 1..Len(ls) }
                  /\ \A k \in 1..Len(ls) :
                        ls[k].points # <<>> =>
                            rows[i].speed[ls[k].id] =
                                ls[k].points[FirstNearest(ls[k], i - 1)].speed_kph
            /\ ls = OverlayExample =>
                  /\ Len(rows) = 51
                  /\ \A id \in {1, 2} :
                        /\ rows[1].speed[id] = 10000
                        /\ rows[51].speed[id] = 12000
                        /\ rows[26].speed[id] = 10000

\* The overlay of the worked example has been computed: row 25 lies as far
\* from the point at 0 as from the point at 50.
C25_Witness ==
    /\ Returned("overlay_speed_vs_distance")
    /\ Get(kernel).arg = OverlayExample
    /\ Len(Get(Get(kernel).out)) = 51
    /\ Get(Get(kernel).out)[26].speed[1] = 10000

\* The greatest lap_distance_m of the lap's points (0 for a lap without points).
MaxDistance(lap) ==
    IF lap.points = <<>> THEN 0
    ELSE CHOOSE m \in { lap.points[k].lap_distance_m : k \in 1..Len(lap.points) } :
             \A k \in 1..Len(lap.points) : lap.points[k].lap_distance_m <= m

\* The laps of the list other than the reference.
Peers(reference, ls) == { k \in 1..Len(ls) : ls[k].id # reference.id }

\* The row of distance d, when there is one, holds the mean over the peers
\* of time_at_distance(lap, d) - time_at_distance(reference, d), and 0 when
\* there is no peer.
RibbonRowIsMean(reference, ls, row) ==
    LET P == Peers(reference, ls)
        diff(k) == time_at_distance(ls[k], row.distance)
                       - time_at_distance(reference, row.distance)
        total[S \in SUBSET P] ==
            IF S = {} THEN 0
            ELSE LET k == CHOOSE x \in S : TRUE IN diff(k) + total[S \ {k}]
    IN  IF P = {} THEN row.delta_ms.num = 0
        ELSE row.delta_ms.num * Cardinality(P) = total[P] * row.delta_ms.den

\* C26: rolling_delta_vs_reference(reference, laps) has a row for every
\* distance d = 0..floor(reference max distance), whose delta_ms is the mean,
\* over the laps whose id differs from the reference's, of
\* time_at_distance(lap, d) - time_at_distance(reference, d), and 0 when there
\* is no such lap; when laps = [reference] every delta_ms is 0.
C26_RibbonOverReferenceDistance ==
    Returned("rolling_delta_vs_reference") =>
        LET a == Get(kernel).arg
            rows == Get(Get(kernel).out)
        IN  /\ Len(rows) = MaxDistance(a.reference) + 1
            /\ \A i \in 1..Len(rows) :
                  /\ rows[i].distance = i - 1
                  /\ RibbonRowIsMean(a.reference, a.laps, rows[i])
            /\ a.laps = <<a.reference>> =>
                  \A i \in 1..Len(rows) : rows[i].delta_ms.num = 0

\* The part of C26 the code meets: the rows it returns, which run to the
\* distance of the reference's last point, hold the mean.
RibbonRowsHoldMean ==
    Returned("rolling_delta_vs_reference") =>
        LET a == Get(kernel).arg
            rows == Get(Get(kernel).out)
        IN  /\ Len(rows) = Max(ribbon_max_len(a.reference) + 1, 0)
            /\ \A i \in 1..Len(rows) :
                  /\ rows[i].distance = i - 1
                  /\ RibbonRowIsMean(a.reference, a.laps, rows[i])
            /\ a.laps = <<a.reference>> =>
                  \A i \in 1..Len(rows) : rows[i].delta_ms.num = 0

\* A ribbon over two peers has been computed with a delta that is not 0.
RibbonOfTwoPeers ==
    /\ Returned("rolling_delta_vs_reference")
    /\ Cardinality(Peers(Get(kernel).arg.reference, Get(kernel).arg.laps)) = 2
    /\ \E i \in 1..Len(Get(Get(kernel).out)) :
          /\ Get(Get(kernel).out)[i].delta_ms.num # 0
          /\ Get(Get(kernel).out)[i].delta_ms.den = 2

\* The sectors are consecutive, none runs backwards, and they span the lap
\* from its first point's distance to its last point's.
SectorsPartition(lap, sectors) ==
    /\ sectors # <<>>
    /\ \A j \in 2..Len(sectors) : sectors[j].start_m = sectors[j - 1].end_m
    /\ \A j \in 1..Len(sectors) : sectors[j].start_m <= sectors[j].end_m
    /\ sectors[1].start_m = lap.points[1].lap_distance_m
    /\ Last(sectors).end_m = Last(lap.points).lap_distance_m

\* C27: for every non-empty lap the sectors of build_track_map are non-empty,
\* consecutive (each start_m is the previous end_m) and non-overlapping
\* (start_m <= end_m), the first starts at the first point's lap_distance_m
\* and the last ends at the last point's; the polyline has one entry per point.
C27_SectorsPartitionTheLap ==
    Returned("build_track_map") =>
        LET lap == Get(kernel).arg
            map == Get(Get(kernel).out)
        IN  /\ Len(map.polyline) = Len(lap.points)
            /\ lap.points # <<>> => SectorsPartition(lap, map.sectors)

\* The part of C27 the code meets: it holds for the laps whose distances
\* never decrease.
SectorsPartitionMonotoneLaps ==
    Returned("build_track_map") =>
        LET lap == Get(kernel).arg
            map == Get(Get(kernel).out)
        IN  /\ Len(map.polyline) = Len(lap.points)
            /\ (lap.points # <<>> /\ NonDecreasing([k \in 1..Len(lap.points) |->
                                                      lap.points[k].lap_distance_m]))
                   => SectorsPartition(lap, map.sectors)

\* A track map of three sectors of positive length has been built.
ThreeSectorsBuilt ==
    /\ Returned("build_track_map")
    /\ Len(Get(Get(kernel).out).sectors) = 3
    /\ \A j \in 1..3 : Get(Get(kernel).out).sectors[j].start_m
                            < Get(Get(kernel).out).sectors[j].end_m

\* C30: when several indices inside one +/-12 window carry the same maximal
\* smoothed curvature (>= 0.03), peak_indices reports only the first of them:
\* a plateau of equal values yields one peak, and no two reported peaks lie
\* within the same window of each other.
C30_OnePeakPerPlateau ==
    Returned("peak_indices") =>
        LET curv == Get(kernel).arg
            peaks == Get(Get(kernel).out)
        IN  /\ \A a \in 1..Len(peaks) :
                  \A k \in Max(peaks[a] - PeakWindow, PeakWindow)..(peaks[a] - 1) :
                      curv[k + 1] # curv[peaks[a] + 1]
            /\ \A a, b \in 1..Len(peaks) :
                  a # b => Abs(peaks[a] - peaks[b]) > PeakWindow

\* What the code reports: every index of window..(n - window) that reaches
\* the threshold and that no value of its window exceeds, the ties included.
PeaksAreWindowMaxima ==
    Returned("peak_indices") =>
        LET curv == Get(kernel).arg
            peaks == Get(Get(kernel).out)
            n == Len(curv)
        IN  { peaks[a] : a \in 1..Len(peaks) } =
                { i \in PeakWindow..(n - PeakWindow - 1) :
                    /\ curv[i + 1] >= PeakThreshold
                    /\ \A k \in (i - PeakWindow)..(i + PeakWindow - 1) :
                          curv[k + 1] <= curv[i + 1] }

\* The series has one value of 0.1, at the 0-based index `at`, and noise
\* of at most 0.02 elsewhere.
SingleBump(curv, at) ==
    /\ at + 1 \in 1..Len(curv)
    /\ curv[at + 1] = BumpLevel
    /\ \A k \in 1..Len(curv) : k # at + 1 => curv[k] <= NoiseLevel

\* C31: peak_indices(curv, window, threshold) returns, in increasing order,
\* only indices i with window <= i < n - window and curv[i] >= threshold for
\* which no k of [i - window, i + window) has curv[k] > curv[i], and nothing
\* when n <= 2 * window.  For window 12 and threshold 0.03: 40 values with
\* one bump of 0.1 at index 20 and noise of at most 0.02 elsewhere give
\* [20]; a flat series, one that stays at its noise level below the
\* threshold, gives []; a bump at index 5 gives [].
C31_PeakIndices ==
    Returned("peak_indices") =>
        LET curv == Get(kernel).arg
            peaks == Get(Get(kernel).out)
            n == Len(curv)
        IN  /\ \A a \in 1..(Len(peaks) - 1) : peaks[a] < peaks[a + 1]
            /\ \A a \in 1..Len(peaks) :
                  /\ PeakWindow <= peaks[a] /\ peaks[a] < n - PeakWindow
                  /\ curv[peaks[a] + 1] >= PeakThreshold
                  /\ ~\E k \in (peaks[a] - PeakWindow)..(peaks[a] + PeakWindow - 1) :
                         curv[k + 1] > curv[peaks[a] + 1]
            /\ n <= 2 * PeakWindow => peaks = <<>>
            /\ (n = 40 /\ SingleBump(curv, 20)) => peaks = <<20>>
            /\ (\A k \in 1..n : curv[k] = curv[1] /\ curv[k] < PeakThreshold) => peaks = <<>>
            /\ (n = 40 /\ SingleBump(curv, 5)) => peaks = <<>>

\* The bump at index 20 of a series of 40 with noise of 0.02 has been found.
BumpAtTwentyFound ==
    /\ Returned("peak_indices")
    /\ Len(Get(kernel).arg) = 40
    /\ SingleBump(Get(kernel).arg, 20)
    /\ \E k \in 1..40 : Get(kernel).arg[k] = NoiseLevel
    /\ Get(Get(kernel).out) = <<20>>

\* The lap has 9 points at t_ms = 0, 100, ..., 800.
NinePoints(lap) ==
    /\ Len(lap.points) = 9
    /\ \A i \in 1..9 : lap.points[i].t_ms = (i - 1) * 100

----------------------------------------------------------------------------
(* Serialization *)

\* The two laps have the same game, car, track, lap_number and points.
SameLapData(a, b) ==
    /\ a.meta.game = b.meta.game /\ a.meta.car = b.meta.car
    /\ a.meta.track = b.meta.track /\ a.meta.lap_number = b.meta.lap_number
    /\ a.points = b.points

\* C28: exporting laps with export_csv and importing the file with import_csv
\* yields the same number of laps, each with the same meta (game, car, track,
\* lap_number) and the same ordered points: no extra lap, no two laps merged.
C28_CsvRoundTrip ==
    Returned("export_csv") =>
        LET ls == Get(kernel).arg
            back == Get(Get(kernel).out).back
        IN  /\ back.ok
            /\ Len(back.laps) = Len(ls)
            /\ \A i \in 1..Len(ls) : SameLapData(back.laps[i], ls[i])

\* What the round trip does give: a first lap made of the record of
\* CsvHeader::default(), then the exported laps when each has a point and
\* neighbours differ in lap_number.
CsvRoundTripAfterHeaderLap ==
    Returned("export_csv") =>
        LET ls == Get(kernel).arg
            back == Get(Get(kernel).out).back
        IN  /\ back.ok
            /\ Len(back.laps) >= 1
            /\ back.laps[1].meta.game = "game"
            /\ back.laps[1].meta.lap_number = 0
            /\ ( /\ \A i \in 1..Len(ls) : ls[i].points # <<>>
                 /\ \A i \in 2..Len(ls) : ls[i].meta.lap_number # ls[i - 1].meta.lap_number )
                  => /\ Len(back.laps) = Len(ls) + 1
                     /\ \A i \in 1..Len(ls) : SameLapData(back.laps[i + 1], ls[i])

\* Two laps of the same lap_number have been exported and come back as one.
CsvRoundTripMerges ==
    /\ Returned("export_csv")
    /\ Len(Get(kernel).arg) = 2
    /\ \A i \in 1..2 : Len(Get(kernel).arg[i].points) = 2
    /\ Len(Get(Get(kernel).out).back.laps) = 2
    /\ Len(Get(Get(kernel).out).back.laps[2].points) = 4

----------------------------------------------------------------------------
(* Ownership of the builders *)

\* C23: for every source key, the LapBuilder under that key is fed by exactly
\* one consumer thread, for any sequence of start_f1 / start_gt7 / start_lmu
\* calls, starting the same kind of source twice included: the samples of two
\* adapter instances never go into the same lap.
C23_OneConsumerPerKey ==
    \A key \in DOMAIN feeders : Cardinality(feeders[key]) = 1

\* The part of C23 the code meets: the consumer thread of a source feeds
\* under the key of its own source only, so keys of different kinds or of
\* different F1 ports and formats are never shared.
ConsumersFeedTheirOwnKey ==
    \A key \in DOMAIN feeders : \A i \in feeders[key] : sources[i].key = key

\* Two sources have fed one builder and the lap it holds has a point of each.
TwoConsumersFedOneLap ==
    \E key \in DOMAIN feeders :
        /\ Cardinality(feeders[key]) = 2
        /\ key \in DOMAIN builders
        /\ IsSome(builders[key].current)
        /\ Len(Get(builders[key].current).points) >= 2

----------------------------------------------------------------------------
(* The session lock *)

InCriticalSection(t) == t \in DOMAIN threads

Computing(t) ==
    InCriticalSection(t) /\ threads[t].call.cmd \in {"analyze_laps", "export_file"}

\* C22: session state is mutated only under the session mutex.  In every
\* interleaving of the consumer threads and the command invocations at most
\* one thread is between lock() and the drop of its guard, and it is the
\* holder of the mutex; laps, builders and workspaces change only in the
\* step in which the holder runs the body of its call; and while an
\* analyze_laps or export_file invocation is in its critical section the Lap
\* Store is the one it saw when lock() returned, so that its result is the
\* one computed from that store.
C22_MutatedOnlyUnderTheMutex ==
    /\ [](/\ Cardinality(DOMAIN threads) <= 1
          /\ \A t \in DOMAIN threads : mutex = Some(t)
          /\ \A t \in DOMAIN threads :
                Computing(t) => laps = threads[t].seen.laps)
    /\ [][ /\ Session' # Session =>
                \E t \in DOMAIN threads :
                    /\ mutex = Some(t)
                    /\ threads[t].pc = "locked"
                    /\ t \in DOMAIN threads' /\ threads'[t].pc = "done"
           /\ \A t \in DOMAIN threads' :
                (threads'[t].pc = "done" /\ threads'[t].call.cmd = "analyze_laps") =>
                    threads'[t].result =
                        Some(analyze_laps(threads'[t].seen.laps, threads'[t].call.lapIds))
         ]_vars

\* Both consumer threads have fed, a lap is stored, and an analyze_laps
\* invocation holds the mutex with its result computed from that store.
AnalysisUnderTheMutex ==
    /\ DOMAIN fedLog = Keys
    /\ \E t \in CommandThreads :
          /\ mutex = Some(t)
          /\ InCriticalSection(t)
          /\ threads[t].call.cmd = "analyze_laps"
          /\ threads[t].pc = "done"
          /\ Get(threads[t].result).ok
          /\ laps # EmptyMap

ReadOnlyCommands == {"list_laps", "analyze_laps", "build_track_map", "export_file"}

\* C24: list_laps, analyze_laps, build_track_map and export_file leave the
\* session unchanged.  The step that runs the body of one of them leaves
\* laps, builders and workspaces as they were, whatever it returns, and at
\* every moment from the lock to the drop of the guard the three are what
\* they were when the call began.
C24_ReadOnlyCommandsLeaveTheSession ==
    /\ [](\A t \in DOMAIN threads :
            threads[t].call.cmd \in ReadOnlyCommands => Session = threads[t].seen)
    /\ [][ \A t \in DOMAIN threads :
              ( /\ threads[t].call.cmd \in ReadOnlyCommands
                /\ threads[t].pc = "locked"
                /\ t \in DOMAIN threads' /\ threads'[t].pc = "done" )
              => UNCHANGED <<laps, builders, workspaces>>
         ]_vars

\* An export_file call has failed over a session with a stored lap, an
\* open lap and a saved workspace, after an analyze_laps call succeeded
\* over a stored lap.
ReadOnlyCallsFailedAndSucceeded ==
    /\ laps # EmptyMap /\ builders # EmptyMap /\ workspaces # EmptyMap
    /\ IsSome(analysis) /\ Get(analysis).result.ok
    /\ \E t \in CommandThreads :
          /\ InCriticalSection(t)
          /\ threads[t].call.cmd = "export_file"
          /\ threads[t].pc = "done"
          /\ ~Get(threads[t].result).ok

----------------------------------------------------------------------------
(* Errors of the commands *)

\* A command returns in this step.
Returns(cmd) == reply' # reply /\ Get(reply').cmd = cmd

\* C34: build_track_map with a lap id that is not in the Lap Store,
\* import_file with an unsupported extension or with a file that fails to
\* parse part-way, export_file with an unknown kind and cars_and_tracks with
\* an unknown game key each return an error, and after the error laps,
\* builders and workspaces are exactly as before the call: a failed import
\* inserts none of the file's laps.
C34_CommandErrorsChangeNothing ==
    [][ ( \/ Returns("build_track_map") /\ Get(reply').args.lapId \notin DOMAIN laps
          \/ Returns("import_file")
               /\ Get(reply').args.file.ext \notin {"csv", "ndjson", "jsonl"}
          \/ Returns("import_file")
               /\ \E i \in 1..Len(Get(reply').args.file.rows) :
                      ~Get(reply').args.file.rows[i].ok
          \/ Returns("export_file") /\ Get(reply').args.kind \notin ExportKinds
          \/ Returns("cars_and_tracks") /\ Get(reply').args.game \notin GameKeys )
        => /\ ~Get(reply').result.ok
           /\ UNCHANGED <<laps, builders, workspaces>>
      ]_vars

\* An import has failed on the second record of its file, after a good
\* first one, on a session that holds a stored lap and an open lap; they
\* are the only laps there are.
ImportFailedPartWay ==
    /\ IsSome(reply)
    /\ Get(reply).cmd = "import_file"
    /\ ~Get(reply).result.ok
    /\ Len(Get(reply).args.file.rows) = 2
    /\ Get(reply).args.file.rows[1].ok
    /\ builders # EmptyMap
    /\ Cardinality(DOMAIN laps) = 1

----------------------------------------------------------------------------
(* The consumer thread after its producer has returned *)

\* run has returned: the sender of the source's channel is dropped.
Exited(i) == sources[i].pstate \in {"ok", "err"}

\* The producer has returned and every queued sample has been received.
Drained(i) == Exited(i) /\ sources[i].chan = <<>>

\* The send numbers of the samples fed under `key`, in the order of the calls.
FedStampsOf(key) == IF key \in DOMAIN fedStamps THEN fedStamps[key] ELSE <<>>

\* The samples of the feed_sample calls made under `key`.
FedLogOf(key) == IF key \in DOMAIN fedLog THEN fedLog[key] ELSE <<>>

\* The send numbers of the samples waiting in the channel of source i.
QueuedStamps(i) == [k \in 1..Len(sources[i].chan) |-> sources[i].chan[k].stamp]

\* The state the session keeps under `key` (its builder, the laps stored from
\* it) and the calls recorded for it.
KeptUnder(ls, bs, log, org, key) ==
    << IF key \in DOMAIN bs THEN <<bs[key]>> ELSE <<>>,
       IF key \in DOMAIN log THEN log[key] ELSE <<>>,
       [id \in {k \in DOMAIN ls \cap DOMAIN org : org[k].src = key} |-> ls[id]] >>

\* C38: with one source per key, the samples fed under the key followed by
\* the samples still queued are the samples the producer sent, each once and
\* in the order they were sent; once the producer has returned and the queue
\* is drained, every sample it sent before returning has been fed exactly
\* once, and from then on the consumer thread makes no feed_sample call: the
\* channel stays empty, the calls recorded under the key and the builder of
\* the key stay as they are, and any change of the session state in a later
\* step comes with a call recorded under another key.
C38_ConsumerAfterProducerExit ==
    /\ [](\A i \in 1..Len(sources) :
            /\ Len(FedStampsOf(sources[i].key)) + Len(sources[i].chan) = sources[i].sent
            /\ StrictlyIncreasing(FedStampsOf(sources[i].key) \o QueuedStamps(i))
            /\ Drained(i) =>
                   /\ Len(FedStampsOf(sources[i].key)) = sources[i].sent
                   /\ Len(FedLogOf(sources[i].key)) = sources[i].sent
                   /\ \A k \in 1..Len(FedStampsOf(sources[i].key)) :
                          FedStampsOf(sources[i].key)[k] <= sources[i].died_at)
    /\ [][\A i \in 1..Len(sources) :
            Drained(i) =>
                /\ Drained(i)'
                /\ sources'[i].sent = sources[i].sent
                /\ FedStampsOf(sources[i].key)' = FedStampsOf(sources[i].key)
                /\ KeptUnder(laps', builders', fedLog', origin', sources[i].key)
                       = KeptUnder(laps, builders, fedLog, origin, sources[i].key)
                /\ (<<laps, builders, workspaces>>' # <<laps, builders, workspaces>> =>
                       \E j \in 1..Len(sources) :
                           /\ sources[j].key # sources[i].key
                           /\ FedStampsOf(sources[j].key)' # FedStampsOf(sources[j].key))]_vars

\* A source whose producer returned after sending two samples has had both
\* fed and its consumer thread sleeps after the failed recv, while a sample
\* of another source, sent after that producer returned, has been fed.
DrainedConsumerSleepsWhileOthersFeed ==
    \E i, j \in 1..Len(sources) :
        /\ i # j
        /\ Drained(i)
        /\ sources[i].consumer = "sleep"
        /\ sources[i].sent = 2
        /\ Len(FedStampsOf(sources[i].key)) = 2
        /\ \E k \in 1..Len(FedStampsOf(sources[j].key)) :
               FedStampsOf(sources[j].key)[k] > sources[i].died_at

====
